---------------------------- MODULE Spec2Model ----------------------------
(***************************************************************************)
(* Purchase-invoice creation from arrival notes (vendor_invoice).          *)
(*                                                                         *)
(* The model covers the three-step wizard of pages/1_Create_Invoice.py     *)
(* (select -> preview -> confirm), the persistence transaction             *)
(* create_purchase_invoice and the invoice-number generator of             *)
(* utils/invoice_data.py, over a small database.                           *)
(*                                                                         *)
(* Conventions.                                                            *)
(*  - Money is held in cents (integers); a rate is held in hundredths      *)
(*    (RateScale = 1.00).  round(x, 2) of the code is RoundDiv below:      *)
(*    round-half-even on the exact quotient (binary floating-point error   *)
(*    of the Python floats is not modelled).                               *)
(*  - An optional value (Python None) is a set with no element; a present  *)
(*    value x is {x}.                                                      *)
(*  - One action is one Streamlit script run (the run started by a click,  *)
(*    followed by the st.rerun() the handler asks for), except             *)
(*    create_purchase_invoice, which is split at its database round trips  *)
(*    so that sessions interleave and a failure can hit any statement.     *)
(***************************************************************************)
EXTENDS Integers, Sequences, FiniteSets, TLC

(***************************************************************************)
(* Bounds of the model.                                                    *)
(***************************************************************************)
\* AUTO_INCREMENT values the purchase_invoices table hands out.
MaxInvoiceId == 2
\* Rows per page of the arrival list (the page offers 25..200; the model
\* uses a page that the small arrival list overflows).
ItemsPerPage == 2
\* Rows of a frame handed to validate_invoice_selection on its own.
MaxFrameRows == 2
\* Pieces of a payment-term label handed to calculate_days_from_term_name.
MaxLabelLen == 3
\* Largest quantity (ordered, arrived, invoiced, pending) of a PO line or an
\* arrival line in the evaluations of the quantity functions.
MaxQuantity == 2
\* Invoice-detail records in the database get_po_line_summary reads.
MaxSummaryDetails == 2

(***************************************************************************)
(* Optional values.                                                        *)
(***************************************************************************)
None == {}
Some(x) == {x}
Get(opt) == CHOOSE x \in opt : TRUE
IsNone(opt) == opt = {}

(***************************************************************************)
(* Arithmetic helpers.                                                     *)
(***************************************************************************)
RateScale == 100

\* round(num/den, 0) with ties to even, for num >= 0 and den > 0: what
\* Python's round() does on the exact value.
RoundDiv(num, den) ==
    LET q == num \div den
        r == num % den
    IN  IF 2 * r < den THEN q
        ELSE IF 2 * r > den THEN q + 1
        ELSE IF q % 2 = 0 THEN q ELSE q + 1

RECURSIVE SumOver(_, _)
\* Sum of f[x] over the finite set S.
SumOver(S, f) ==
    IF S = {} THEN 0
    ELSE LET x == CHOOSE y \in S : TRUE
         IN  f[x] + SumOver(S \ {x}, f)

SetMax(S) == CHOOSE x \in S : \A y \in S : y <= x

RECURSIVE Digits(_)
\* Decimal digits of a natural number, as str(n) prints them.
Digits(n) == IF n < 10 THEN <<n>> ELSE Digits(n \div 10) \o <<n % 10>>

(***************************************************************************)
(* Reference data the program only reads: the arrival/PO tracking view     *)
(* joined with purchase_orders and product_purchase_orders.  The view is   *)
(* defined in the database, outside the repository; its rows are held      *)
(* fixed (what the list shows within the cache lifetime of                 *)
(* get_uninvoiced_ans).                                                    *)
(***************************************************************************)
Sessions == {"s1", "s2"}
Currencies == {"USD", "EUR"}

\* can_line_id = arrival_details.id (the join of get_invoice_details).
\* Lines 1 and 2 are of two POs of one vendor.
can_tracking_full_view ==
    1 :> [can_line_id |-> 1, arrival_detail_id |-> 1,
          vendor_code |-> "V1", vendor_type |-> "Internal",
          legal_entity_code |-> "E1", vendor_id |-> 11, entity_id |-> 1,
          po_currency_code |-> "USD", buying_unit_cost |-> <<101, "USD">>,
          uninvoiced_quantity |-> 1, product_purchase_order_id |-> 1,
          purchase_order_id |-> 1]
 @@ 2 :> [can_line_id |-> 2, arrival_detail_id |-> 2,
          vendor_code |-> "V1", vendor_type |-> "Internal",
          legal_entity_code |-> "E1", vendor_id |-> 11, entity_id |-> 1,
          po_currency_code |-> "USD", buying_unit_cost |-> <<101, "USD">>,
          uninvoiced_quantity |-> 1, product_purchase_order_id |-> 2,
          purchase_order_id |-> 3]
 @@ 3 :> [can_line_id |-> 3, arrival_detail_id |-> 3,
          vendor_code |-> "V2", vendor_type |-> "External",
          legal_entity_code |-> "E2", vendor_id |-> 2, entity_id |-> 12,
          po_currency_code |-> "EUR", buying_unit_cost |-> <<200, "EUR">>,
          uninvoiced_quantity |-> 3, product_purchase_order_id |-> 3,
          purchase_order_id |-> 2]

CanLines == DOMAIN can_tracking_full_view
VendorCodes == {can_tracking_full_view[l].vendor_code : l \in CanLines}

\* COALESCE(ppo.vat_gst, 0) AS vat_percent: the VAT rate of the PO line as the
\* arrival list shows it (the value read when the list was loaded), by
\* product_purchase_order_id.
vat_gst == 1 :> 10 @@ 2 :> 10 @@ 3 :> 8 @@ 4 :> 10

\* The PO lines get_invoice_details joins to an arrival line: the lines of
\* the line's PO that carry the line's product.  PO 2 has two lines (3 and
\* 4) for the product of arrival line 3.
matching_po_lines == 1 :> {1} @@ 2 :> {2} @@ 3 :> {3, 4}

\* Values product_purchase_orders.vat_gst is set to (percent).
VatRates == {8, 10}

\* Rates the exchange-rate provider can answer with for a pair of different
\* currencies (hundredths), besides "unavailable".
ProviderRates == {33}
OptRates(S) == {None} \cup {Some(r) : r \in S}
UsdRates == {92}

VARIABLES
    \* ---- database ----
    purchase_invoices,          \* committed header rows
    purchase_invoice_details,   \* committed detail rows
    next_id,                    \* AUTO_INCREMENT of purchase_invoices
    currencies,                 \* codes get_available_currencies() lists
    product_purchase_orders,    \* vat_gst of each live PO line (none: NULL)
    can_payment_term,           \* payment_term of each arrival line (none: NULL)
    \* ---- st.session_state, per session ----
    authenticated,
    wizard_step,
    selected_ans,
    filter_vendor,
    current_page,
    selected_df,
    details_df,
    invoice_data,
    is_advance_payment,
    invoice_creating,
    selected_payment_term,      \* none: the key is not in the session state
    last_created_invoice,       \* the success info the select step is to show
    \* ---- the running create_purchase_invoice call, per session ----
    pc,                         \* position in the call ("idle": no call)
    tx,                         \* the open transaction: its uncommitted rows
    result,                     \* the value the last call returned
    \* ---- the read-only functions of utils/invoice_data.py ----
    evaluated,                  \* the last evaluation: fn, args, value
    \* ---- st.cache_data, shared by the sessions of the server ----
    cache_data                  \* the entries held: fn, args, value

db_vars == <<purchase_invoices, purchase_invoice_details, next_id, currencies,
            product_purchase_orders, can_payment_term>>
select_vars == <<selected_ans, filter_vendor, current_page>>
wizard_step_vars == <<wizard_step, selected_df, details_df, invoice_data,
                      is_advance_payment, invoice_creating,
                      selected_payment_term>>
wizard_vars == <<wizard_step, selected_df, details_df, invoice_data,
                 is_advance_payment, invoice_creating, selected_payment_term,
                 last_created_invoice>>
call_vars == <<pc, tx>>
vars == <<purchase_invoices, purchase_invoice_details, next_id, currencies,
          product_purchase_orders, can_payment_term, authenticated, evaluated,
          cache_data, wizard_step, selected_ans, filter_vendor, current_page, selected_df,
          details_df, invoice_data, is_advance_payment, invoice_creating,
          selected_payment_term, last_created_invoice, pc, tx, result>>

(***************************************************************************)
(* Step 1: the arrival list (show_an_selection).                           *)
(***************************************************************************)
\* get_uninvoiced_ans(filters): the can_line_ids of the rows the vendor
\* filter keeps (an empty multiselect filters nothing), in list order.
get_uninvoiced_ans(vendors) ==
    SelectSeq(<<1, 2, 3>>,
              LAMBDA l : vendors = {} \/
                         can_tracking_full_view[l].vendor_code \in vendors)

total_pages(df) == (Len(df) + ItemsPerPage - 1) \div ItemsPerPage

\* "Ensure current page is valid".
clamp_page(page, df) ==
    IF page > total_pages(df) THEN total_pages(df)
    ELSE IF page < 1 THEN 1 ELSE page

\* page_df['can_line_id']: the ids on page `page` of df.
page_ids(df, page) ==
    LET start_idx == (page - 1) * ItemsPerPage
        end_idx == IF start_idx + ItemsPerPage < Len(df)
                   THEN start_idx + ItemsPerPage ELSE Len(df)
    IN  {df[i] : i \in (start_idx + 1)..end_idx}

Range(seq) == {seq[i] : i \in 1..Len(seq)}

\* The script is at rest in step `step`: the session is logged in and no
\* creation is running in it.
AtStep(s, step) ==
    /\ authenticated[s]
    /\ wizard_step[s] = step
    /\ pc[s] = "idle"

\* The head of show_an_selection: when last_created_invoice holds an invoice
\* the success message is shown, and the key is set to None.
ShowLastCreatedInvoice(s) ==
    last_created_invoice' = [last_created_invoice EXCEPT ![s] = None]

cur_df(s) == get_uninvoiced_ans(filter_vendor[s])
cur_page_ids(s) == page_ids(cur_df(s), current_page[s])

\* The rows of the view with the given can_line_ids (df[df.can_line_id.isin(ids)]
\* and the result of get_invoice_details(ids)).
Rows(ids) == {can_tracking_full_view[l] : l \in ids}
Ids(df) == {row.can_line_id : row \in df}

\* display_standard_row / display_row_with_po_analysis: the checkbox of a row
\* of the current page is toggled; the run adds or discards its id.
ToggleRow(s, l) ==
    /\ result' = [result EXCEPT ![s] = None]
    /\ AtStep(s, "select")
    /\ ShowLastCreatedInvoice(s)
    /\ l \in cur_page_ids(s)
    /\ selected_ans' = [selected_ans EXCEPT ![s] =
                            IF l \in @ THEN @ \ {l} ELSE @ \cup {l}]
    /\ UNCHANGED <<db_vars, authenticated, evaluated, cache_data, wizard_step_vars, filter_vendor,
                   current_page, call_vars>>

\* The header checkbox: all rows of the page selected -> deselect them,
\* otherwise select them all.
SelectAllPage(s) ==
    /\ result' = [result EXCEPT ![s] = None]
    /\ AtStep(s, "select")
    /\ ShowLastCreatedInvoice(s)
    /\ LET ids == cur_page_ids(s)
           is_all_selected == ids \subseteq selected_ans[s] /\ ids # {}
       IN  selected_ans' = [selected_ans EXCEPT ![s] =
                               IF is_all_selected THEN @ \ ids ELSE @ \cup ids]
    /\ UNCHANGED <<db_vars, authenticated, evaluated, cache_data, wizard_step_vars, filter_vendor,
                   current_page, call_vars>>

\* The vendor multiselect changes; the rerun lists the filtered rows and
\* clamps the page.  The selection set is not touched.
SetFilter(s, vendors) ==
    /\ result' = [result EXCEPT ![s] = None]
    /\ AtStep(s, "select")
    /\ ShowLastCreatedInvoice(s)
    /\ vendors # filter_vendor[s]
    /\ filter_vendor' = [filter_vendor EXCEPT ![s] = vendors]
    /\ current_page' = [current_page EXCEPT ![s] =
                            clamp_page(@, get_uninvoiced_ans(vendors))]
    /\ UNCHANGED <<db_vars, authenticated, evaluated, cache_data, wizard_step_vars, selected_ans, call_vars>>

\* Variant: "Reset Filters" clears the filters and keeps the selection set.
ResetFilters_keeps_selection(s) ==
    /\ result' = [result EXCEPT ![s] = None]
    /\ AtStep(s, "select")
    /\ ShowLastCreatedInvoice(s)
    /\ filter_vendor' = [filter_vendor EXCEPT ![s] = {}]
    /\ current_page' = [current_page EXCEPT ![s] = 1]
    /\ UNCHANGED <<db_vars, authenticated, evaluated, cache_data, wizard_step_vars,
                   selected_ans, call_vars>>

\* "Reset Filters".
ResetFilters(s) ==
    /\ result' = [result EXCEPT ![s] = None]
    /\ AtStep(s, "select")
    /\ ShowLastCreatedInvoice(s)
    /\ filter_vendor' = [filter_vendor EXCEPT ![s] = {}]
    /\ selected_ans' = [selected_ans EXCEPT ![s] = {}]
    /\ current_page' = [current_page EXCEPT ![s] = 1]
    /\ UNCHANGED <<db_vars, authenticated, evaluated, cache_data, wizard_step_vars, call_vars>>

\* First / Previous / Next / Last (each disabled on the page it leads to).
ChangePage(s, page) ==
    /\ result' = [result EXCEPT ![s] = None]
    /\ AtStep(s, "select")
    /\ ShowLastCreatedInvoice(s)
    /\ page \in 1..total_pages(cur_df(s))
    /\ page # current_page[s]
    /\ page \in {1, current_page[s] - 1, current_page[s] + 1,
                 total_pages(cur_df(s))}
    /\ current_page' = [current_page EXCEPT ![s] = page]
    /\ UNCHANGED <<db_vars, authenticated, evaluated, cache_data, wizard_step_vars, selected_ans,
                   filter_vendor, call_vars>>

\* The (is_valid, error_message) pair validate_invoice_selection returns.
Verdict(is_valid, error_message) ==
    [is_valid |-> is_valid, error_message |-> error_message]

\* Variant: the legal-entity rule is checked before the vendor rules.
validate_invoice_selection_entity_first(df) ==
    IF df = {} THEN Verdict(FALSE, "No items selected")
    ELSE IF Cardinality({row.legal_entity_code : row \in df}) > 1
         THEN Verdict(FALSE, "Multiple legal entities selected")
    ELSE IF Cardinality({row.vendor_code : row \in df}) > 1
         THEN Verdict(FALSE, "Multiple vendors selected")
    ELSE IF Cardinality({row.vendor_type : row \in df}) > 1
         THEN Verdict(FALSE, "Cannot mix Internal and External vendors in the same invoice")
    ELSE Verdict(TRUE, "")

\* validate_invoice_selection: the message of the first rule that fails (the
\* fixed part of it, without the codes it lists), or (True, "").
validate_invoice_selection(df) ==
    IF df = {} THEN Verdict(FALSE, "No items selected")
    ELSE IF Cardinality({row.vendor_code : row \in df}) > 1
         THEN Verdict(FALSE, "Multiple vendors selected")
    ELSE IF Cardinality({row.vendor_type : row \in df}) > 1
         THEN Verdict(FALSE, "Cannot mix Internal and External vendors in the same invoice")
    ELSE IF Cardinality({row.legal_entity_code : row \in df}) > 1
         THEN Verdict(FALSE, "Multiple legal entities selected")
    ELSE Verdict(TRUE, "")

\* get_invoice_details(can_line_ids): one row for each pair of a line of the
\* view and a PO line that matches it.
get_invoice_details(ids) ==
    UNION {{[can_tracking_full_view[l] EXCEPT !.product_purchase_order_id = p] :
               p \in matching_po_lines[l]} : l \in ids}

\* Variant: no row is dropped.
drop_duplicates_keeps_all(df, subset) == df

\* df.drop_duplicates(subset=[subset]): of the rows that agree on the column,
\* the first is kept (the rows of a line come in the order of the PO line
\* ids).
drop_duplicates(df, subset) ==
    {row \in df :
        \A other \in df :
            other[subset] = row[subset]
            => row.product_purchase_order_id <= other.product_purchase_order_id}

\* The payment-term labels in sort order (the order mode() lists them in).
TermOrder == <<"Net 30", "Net 60">>

\* No arrival line has a payment term; lines 1 and 2 have different ones.
NoPaymentTerms == [l \in CanLines |-> None]
LinePaymentTerms == 1 :> Some("Net 30") @@ 2 :> Some("Net 60") @@ 3 :> None

\* row['payment_term'] of a row of the arrival list.
payment_term(row) ==
    IF row.can_line_id \in DOMAIN can_payment_term
    THEN can_payment_term[row.can_line_id] ELSE None

\* selected_df['payment_term'].dropna(): the labels the rows carry.
payment_terms(df) ==
    {Get(payment_term(row)) : row \in {r \in df : ~ IsNone(payment_term(r))}}

\* ....unique().tolist(): the labels in the order of their first row (the rows
\* come in id order).
unique_payment_terms(df) ==
    LET labels == payment_terms(df)
        first_seen(label) ==
            CHOOSE id \in Ids(df) :
                /\ \E row \in df : /\ row.can_line_id = id
                                    /\ payment_term(row) = Some(label)
                /\ \A row \in df : payment_term(row) = Some(label)
                                       => id <= row.can_line_id
    IN  CHOOSE names \in [1..Cardinality(labels) -> labels] :
            \A i, j \in 1..Cardinality(labels) :
                i < j => first_seen(names[i]) < first_seen(names[j])

\* selected_df['payment_term'].mode().iloc[0]: the most frequent label, the
\* first in sort order of those that tie.
most_common_term(df) ==
    LET labels == payment_terms(df)
        count(label) ==
            Cardinality({row \in df : payment_term(row) = Some(label)})
        top == {label \in labels : \A other \in labels :
                                      count(other) <= count(label)}
        i == CHOOSE k \in DOMAIN TermOrder :
                 /\ TermOrder[k] \in top
                 /\ \A j \in DOMAIN TermOrder : TermOrder[j] \in top => k <= j
    IN  TermOrder[i]

\* st.session_state.selected_payment_term after a run of the preview over
\* selected_df.  The key is set (the most frequent label, or 'Net 30' when no
\* row has one) only when the session state does not hold it; when the run
\* comes to the "Payment Terms" selectbox (shows_form: the rates it fetched
\* let it through) a term that is not among the options gives way to the
\* first option.
render_payment_term(stale, df, shows_form) ==
    LET held == IF ~ IsNone(stale) THEN Get(stale)
                ELSE IF payment_terms(df) = {} THEN "Net 30"
                ELSE most_common_term(df)
        term_names == IF payment_terms(df) = {} THEN <<"Net 30">>
                      ELSE unique_payment_terms(df)
    IN  IF shows_form /\ held \notin Range(term_names) THEN term_names[1]
        ELSE held

\* df.iloc[0]: the first row of a details frame (rows come in id order).
first_row(df) == CHOOSE row \in df : \A other \in df :
                     row.can_line_id <= other.can_line_id

\* calculate_exchange_rates(po, invoice), from the answers the rate provider
\* gave for the two pairs.
calculate_exchange_rates(po_currency_code, invoice_currency_code, fetched_po_rate, fetched_usd_rate) ==
    [po_to_invoice_rate |-> IF po_currency_code = invoice_currency_code
                            THEN Some(RateScale) ELSE fetched_po_rate,
     usd_exchange_rate |-> IF invoice_currency_code = "USD"
                           THEN Some(RateScale) ELSE fetched_usd_rate]

\* validate_exchange_rates(rates, po, invoice): is_valid.
validate_exchange_rates(rates, po_currency_code, invoice_currency_code) ==
    ~ (po_currency_code # invoice_currency_code
       /\ IsNone(rates.po_to_invoice_rate))

\* The "Invoice Currency" selectbox when it is rendered afresh (its state is
\* dropped by a run that does not render it): the PO currency when it is
\* among the options, else USD when it is, else the first option.
default_invoice_currency(po_currency_code) ==
    IF po_currency_code \in currencies THEN po_currency_code
    ELSE IF "USD" \in currencies THEN "USD"
    ELSE CHOOSE code \in currencies : TRUE

\* A run of the preview of session s over selected_df, the invoice currency
\* being one of invoice_currencies: the rates are fetched, and the run comes
\* to the "Payment Terms" selectbox when they validate.
ShowPaymentTerm(s, df, invoice_currencies) ==
    LET po_currency_code ==
            first_row(get_invoice_details(selected_ans[s])).po_currency_code
        rates_valid ==
            {validate_exchange_rates(
                 calculate_exchange_rates(po_currency_code, invoice_currency_code,
                                          fetched_po_rate, fetched_usd_rate),
                 po_currency_code, invoice_currency_code) :
                 invoice_currency_code \in invoice_currencies,
                 fetched_po_rate \in OptRates(ProviderRates),
                 fetched_usd_rate \in OptRates(UsdRates)}
    IN  \E shows_form \in rates_valid :
            selected_payment_term' = [selected_payment_term EXCEPT ![s] =
                Some(render_payment_term(@, df, shows_form))]

\* selected_df of the summary block: the rows of the *filtered* list whose id
\* is in the selection set.
filtered_selection(s) == Rows(Range(cur_df(s)) \cap selected_ans[s])

\* Variant: the button is offered whatever validate_invoice_selection says.
ProceedToPreview_unvalidated(s, can_invoice) ==
    /\ result' = [result EXCEPT ![s] = None]
    /\ AtStep(s, "select")
    /\ ShowLastCreatedInvoice(s)
    /\ selected_ans[s] # {}
    /\ can_invoice
    /\ selected_df' = [selected_df EXCEPT ![s] = Some(
           drop_duplicates(filtered_selection(s), "can_line_id"))]
    /\ wizard_step' = [wizard_step EXCEPT ![s] = "preview"]
    /\ ShowPaymentTerm(s, drop_duplicates(filtered_selection(s), "can_line_id"),
                       {default_invoice_currency(
                           first_row(get_invoice_details(selected_ans[s]))
                               .po_currency_code)})
    /\ details_df' = [details_df EXCEPT ![s] = Some(
           drop_duplicates(get_invoice_details(selected_ans[s]),
                           "arrival_detail_id"))]
    /\ UNCHANGED <<db_vars, authenticated, evaluated, cache_data, select_vars,
                   invoice_data, is_advance_payment, invoice_creating, call_vars>>

\* "Proceed to Preview": offered when the selection set is not empty, the
\* filtered selection validates and the PO-level check lets it through.  The
\* rerun renders the preview, which loads the details of every id of the
\* selection set.
ProceedToPreview(s, can_invoice) ==
    /\ result' = [result EXCEPT ![s] = None]
    /\ AtStep(s, "select")
    /\ ShowLastCreatedInvoice(s)
    /\ selected_ans[s] # {}
    /\ validate_invoice_selection(filtered_selection(s)).is_valid
    /\ can_invoice
    /\ selected_df' = [selected_df EXCEPT ![s] = Some(
           drop_duplicates(filtered_selection(s), "can_line_id"))]
    /\ wizard_step' = [wizard_step EXCEPT ![s] = "preview"]
    /\ ShowPaymentTerm(s, drop_duplicates(filtered_selection(s), "can_line_id"),
                       {default_invoice_currency(
                           first_row(get_invoice_details(selected_ans[s]))
                               .po_currency_code)})
    /\ details_df' = [details_df EXCEPT ![s] = Some(
           drop_duplicates(get_invoice_details(selected_ans[s]),
                           "arrival_detail_id"))]
    /\ UNCHANGED <<db_vars, authenticated, evaluated, cache_data, select_vars, invoice_data,
                   is_advance_payment, invoice_creating, call_vars>>

\* "Back" of the preview form.
BackToSelection(s) ==
    /\ result' = [result EXCEPT ![s] = None]
    /\ AtStep(s, "preview")
    /\ wizard_step' = [wizard_step EXCEPT ![s] = "select"]
    /\ ShowLastCreatedInvoice(s)
    /\ UNCHANGED <<db_vars, authenticated, evaluated, cache_data, select_vars, selected_df, details_df,
                   invoice_data, is_advance_payment, invoice_creating,
                   selected_payment_term, call_vars>>

(***************************************************************************)
(* Step 2: the preview (show_invoice_preview).                             *)
(***************************************************************************)
\* The "Advance Payment Invoice" checkbox: the run loads the details, stores
\* the new value and reruns.
ToggleAdvancePayment(s) ==
    /\ result' = [result EXCEPT ![s] = None]
    /\ AtStep(s, "preview")
    /\ ~ IsNone(selected_df[s])
    /\ get_invoice_details(selected_ans[s]) # {}
    /\ is_advance_payment' = [is_advance_payment EXCEPT ![s] = ~ @]
    /\ ShowPaymentTerm(s, Get(selected_df[s]), currencies)
    /\ details_df' = [details_df EXCEPT ![s] = Some(
           drop_duplicates(get_invoice_details(selected_ans[s]),
                           "arrival_detail_id"))]
    /\ UNCHANGED <<db_vars, authenticated, evaluated, cache_data, select_vars, wizard_step,
                   selected_df, invoice_data, invoice_creating, call_vars,
                   last_created_invoice>>

\* The "Payment Terms" selectbox: the user picks one of the options, the
\* labels of the selected rows; the run stores it.
ChoosePaymentTerm(s, term) ==
    /\ result' = [result EXCEPT ![s] = None]
    /\ AtStep(s, "preview")
    /\ ~ IsNone(selected_df[s])
    /\ get_invoice_details(selected_ans[s]) # {}
    /\ term \in payment_terms(Get(selected_df[s]))
    /\ selected_payment_term' = [selected_payment_term EXCEPT ![s] = Some(term)]
    /\ details_df' = [details_df EXCEPT ![s] = Some(
           drop_duplicates(get_invoice_details(selected_ans[s]),
                           "arrival_detail_id"))]
    /\ UNCHANGED <<db_vars, authenticated, evaluated, cache_data, select_vars, wizard_step,
                   selected_df, invoice_data, is_advance_payment,
                   invoice_creating, call_vars,
                   last_created_invoice>>

\* SELECT MAX(id) FROM purchase_invoices (committed rows; 0 when none).
max_invoice_id == IF purchase_invoices = {} THEN 0
                  ELSE SetMax({h.id : h \in purchase_invoices})

\* Variant: the buyer is printed before the vendor.
format_invoice_number_buyer_first(vendor_id, buyer_id, seq, suffix) ==
    [date |-> "YYYYMMDD",
     body |-> Digits(buyer_id) \o Digits(vendor_id) \o seq,
     suffix |-> suffix]

\* f"V-INV{date}-{vendor_id}{buyer_id}{seq}-{suffix}": the three parts of the
\* body are printed one after the other with nothing between them (seq: the
\* digits of the sequence number, or of the time of day in the fallback).
format_invoice_number(vendor_id, buyer_id, seq, suffix) ==
    [date |-> "YYYYMMDD",
     body |-> Digits(vendor_id) \o Digits(buyer_id) \o seq,
     suffix |-> suffix]

\* datetime.now().strftime('%H%M%S') at the time of the run.
TimeOfDay == <<0, 9, 3, 0, 0, 0>>

\* Variant: the suffix is P whatever the type.
generate_invoice_number_suffix_P(vendor_id, buyer_id, is_advance, query_ok) ==
    format_invoice_number(vendor_id, buyer_id,
                          IF query_ok THEN Digits(max_invoice_id + 1)
                          ELSE TimeOfDay, "P")

\* Variant: the sequence is taken from the table's AUTO_INCREMENT counter.
generate_invoice_number_from_counter(vendor_id, buyer_id, is_advance, query_ok) ==
    format_invoice_number(vendor_id, buyer_id, Digits(next_id),
                          IF is_advance THEN "A" ELSE "P")

\* generate_invoice_number(vendor_id, buyer_id, is_advance_payment); query_ok:
\* the MAX(id) query went through (the except branch builds the number from
\* the time of day otherwise).
generate_invoice_number(vendor_id, buyer_id, is_advance, query_ok) ==
    LET last_id == max_invoice_id
        seq == last_id + 1
        suffix == IF is_advance THEN "A" ELSE "P"
    IN  IF query_ok
        THEN format_invoice_number(vendor_id, buyer_id, Digits(seq), suffix)
        ELSE format_invoice_number(vendor_id, buyer_id, TimeOfDay, suffix)

\* The VAT-inclusive total of the preview, over the rows of selected_df, each
\* line converted before the sum:
\*   estimated_invoice_value = ROUND(qty * unit_cost, 2)
\*   vat_amount = ROUND(qty * unit_cost * vat_percent / 100, 2)
total_with_vat(df, rate) ==
    LET value == [row \in df |->
                    LET est == row.uninvoiced_quantity * row.buying_unit_cost[1]
                        vat == RoundDiv(est * vat_gst[row.product_purchase_order_id], 100)
                    IN  (est + vat) * rate]
    IN  RoundDiv(SumOver(df, value), RateScale)

\* The totals the form shows and stores: converted when the rate is there,
\* the unconverted totals ("Cannot calculate converted amounts") otherwise.
invoice_totals(df, po_to_invoice_rate) ==
    IF IsNone(po_to_invoice_rate) THEN total_with_vat(df, RateScale)
    ELSE total_with_vat(df, Get(po_to_invoice_rate))

\* Variant: the form goes on although the rates did not validate.
preview_passes_rate_unchecked(rates, po_currency_code, invoice_currency_code, is_advance, commercial_invoice_no) ==
    ~ (~ is_advance /\ commercial_invoice_no = "")

\* Variant: the form goes on without a commercial-invoice number.
preview_passes_number_optional(rates, po_currency_code, invoice_currency_code, is_advance, commercial_invoice_no) ==
    validate_exchange_rates(rates, po_currency_code, invoice_currency_code)

\* The preview lets the form through: the rates it needs are there ("Cannot
\* proceed with invoice" otherwise), and a commercial invoice has its number.
preview_passes(rates, po_currency_code, invoice_currency_code, is_advance, commercial_invoice_no) ==
    /\ validate_exchange_rates(rates, po_currency_code, invoice_currency_code)
    /\ ~ (~ is_advance /\ commercial_invoice_no = "")

\* What "Review & Confirm" does to the session: the run reloads the details
\* of the selection set, generates the number, fetches the rates and, when
\* nothing stops it, stores invoice_data and moves to the confirm step.
StoreInvoiceData(s, invoice_currency_code, fetched_po_rate, fetched_usd_rate, commercial_invoice_no, query_ok) ==
    /\ result' = [result EXCEPT ![s] = None]
    /\ AtStep(s, "preview")
    /\ ~ IsNone(selected_df[s])
    /\ LET details == drop_duplicates(get_invoice_details(selected_ans[s]),
                                      "arrival_detail_id")
           po_currency_code == first_row(details).po_currency_code
           vendor_id == first_row(details).vendor_id
           buyer_id == first_row(details).entity_id
           invoice_number == generate_invoice_number(vendor_id, buyer_id,
                                 is_advance_payment[s], query_ok)
           rates == calculate_exchange_rates(po_currency_code,
                        invoice_currency_code, fetched_po_rate, fetched_usd_rate)
           usd_rate == IF invoice_currency_code = "USD" THEN Some(RateScale)
                       ELSE rates.usd_exchange_rate
       IN  /\ details # {}
           /\ invoice_currency_code \in currencies
           /\ preview_passes(rates, po_currency_code, invoice_currency_code,
                             is_advance_payment[s], commercial_invoice_no)
           /\ details_df' = [details_df EXCEPT ![s] = Some(details)]
           /\ invoice_data' = [invoice_data EXCEPT ![s] = Some(
                [invoice_number |-> invoice_number,
                 commercial_invoice_no |->
                     IF is_advance_payment[s] THEN "" ELSE commercial_invoice_no,
                 total_invoiced_amount |->
                     invoice_totals(Get(selected_df[s]),
                                    rates.po_to_invoice_rate),
                 invoice_currency_code |-> invoice_currency_code,
                 usd_exchange_rate |-> usd_rate,
                 seller_id |-> vendor_id,
                 buyer_id |-> buyer_id,
                 invoice_type |-> IF is_advance_payment[s]
                                  THEN "PROFORMA_INVOICE" ELSE "COMMERCIAL_INVOICE",
                 advance_payment |-> IF is_advance_payment[s] THEN 1 ELSE 0,
                 po_currency_code |-> po_currency_code,
                 po_to_invoice_rate |-> rates.po_to_invoice_rate])]
    /\ wizard_step' = [wizard_step EXCEPT ![s] = "confirm"]
    /\ selected_payment_term' = [selected_payment_term EXCEPT ![s] =
           Some(render_payment_term(@, Get(selected_df[s]), TRUE))]
    /\ UNCHANGED <<authenticated, evaluated, cache_data, select_vars, selected_df,
                   is_advance_payment, invoice_creating, call_vars,
                   last_created_invoice>>

\* Variant: the handler also saves a draft header.
ReviewAndConfirm_saves_draft(s, invoice_currency_code, fetched_po_rate, fetched_usd_rate, commercial_invoice_no, query_ok) ==
    /\ StoreInvoiceData(s, invoice_currency_code, fetched_po_rate,
                        fetched_usd_rate, commercial_invoice_no, query_ok)
    /\ purchase_invoices' = purchase_invoices \cup
           {[id |-> 0,
             invoice_number |-> Get(invoice_data'[s]).invoice_number]}
    /\ UNCHANGED <<purchase_invoice_details, next_id, currencies,
                   product_purchase_orders, can_payment_term>>

\* "Review & Confirm": nothing is written to the database.
ReviewAndConfirm(s, invoice_currency_code, fetched_po_rate, fetched_usd_rate, commercial_invoice_no, query_ok) ==
    /\ StoreInvoiceData(s, invoice_currency_code, fetched_po_rate,
                        fetched_usd_rate, commercial_invoice_no, query_ok)
    /\ UNCHANGED db_vars

(***************************************************************************)
(* Step 3: confirm and submit (show_invoice_confirm).                      *)
(***************************************************************************)
\* "Back to Preview"; the rerun renders the preview, which reloads details.
BackToPreview(s) ==
    /\ result' = [result EXCEPT ![s] = None]
    /\ AtStep(s, "confirm")
    /\ wizard_step' = [wizard_step EXCEPT ![s] = "preview"]
    /\ IF IsNone(selected_df[s]) THEN UNCHANGED selected_payment_term
       ELSE ShowPaymentTerm(s, Get(selected_df[s]),
                            {default_invoice_currency(
                                first_row(get_invoice_details(selected_ans[s]))
                                    .po_currency_code)})
    /\ details_df' = [details_df EXCEPT ![s] = Some(
           drop_duplicates(get_invoice_details(selected_ans[s]),
                           "arrival_detail_id"))]
    /\ UNCHANGED <<db_vars, authenticated, evaluated, cache_data, select_vars, selected_df,
                   invoice_data, is_advance_payment, invoice_creating, call_vars,
                   last_created_invoice>>

(***************************************************************************)
(* create_purchase_invoice(invoice_data, details_df, user_id).             *)
(*                                                                         *)
(* pc: idle -> resolving_creator -> computing_totals -> inserting_header   *)
(*     -> inserting_lines -> committing -> idle.                           *)
(* The rows a call has inserted stay in tx until the transaction ends:     *)
(* other sessions read committed rows only.                                *)
(***************************************************************************)
NoTx ==
    [invoice_data |-> None, details_df |-> {}, keycloak_id |-> None,
     total_amount_exclude_vat |-> None, header |-> None, details |-> {}]

\* `with engine.begin()` left without an exception: the transaction commits.
committed(table, uncommitted) == table \cup uncommitted

\* Variant: the statements run in autocommit, nothing is undone.
rolled_back_keeps_rows(table, uncommitted) == table \cup uncommitted

\* `with engine.begin()` left by an exception: the transaction rolls back.
rolled_back(table, uncommitted) == table

\* The value a call returns, with what the transaction did.  allocated (the
\* id the header insert was given) and inserts (the INSERT statements the
\* call executed) are history, kept to state properties; exception is the
\* str(e) part of the failure message.
CallResult(ok, reason, invoice_id, tx_end, t) ==
    [returned |-> TRUE, ok |-> ok, reason |-> reason, invoice_id |-> invoice_id,
     exception |-> None,
     tx_end |-> tx_end,
     allocated |-> {h.id : h \in t.header},
     inserts |-> Cardinality(t.header) + Cardinality(t.details)]

\* Variant: the exception is raised again to the caller.
on_exception_reraised(exc, t) ==
    [CallResult(FALSE, "Error creating invoice", None, "rolled_back", t)
        EXCEPT !.returned = FALSE, !.exception = Some(exc)]

\* `except Exception as e`: the rollback has happened; the exception becomes
\* the failure value.
on_exception(exc, t) ==
    [CallResult(FALSE, "Error creating invoice", None, "rolled_back", t)
        EXCEPT !.exception = Some(exc)]

\* Variant: the caller calls create_purchase_invoice again after a failure.
FailureReturn_retries(s, res, tx_end_table_h, tx_end_table_d) ==
    /\ purchase_invoices' = tx_end_table_h
    /\ purchase_invoice_details' = tx_end_table_d
    /\ result' = [result EXCEPT ![s] = Some(res)]
    /\ pc' = [pc EXCEPT ![s] = "resolving_creator"]
    /\ tx' = [tx EXCEPT ![s] = [NoTx EXCEPT
                  !.invoice_data = invoice_data[s],
                  !.details_df = Get(details_df[s])]]
    /\ UNCHANGED <<next_id, currencies, product_purchase_orders, can_payment_term, authenticated,
                   evaluated, cache_data, select_vars, wizard_vars>>

\* The caller after a failure (the else branch and the except branch of
\* show_invoice_confirm): the session stays where it is, the flag is cleared.
FailureReturn(s, res, tx_end_table_h, tx_end_table_d) ==
    /\ purchase_invoices' = tx_end_table_h
    /\ purchase_invoice_details' = tx_end_table_d
    /\ result' = [result EXCEPT ![s] = Some(res)]
    /\ pc' = [pc EXCEPT ![s] = "idle"]
    /\ tx' = [tx EXCEPT ![s] = NoTx]
    /\ invoice_creating' = [invoice_creating EXCEPT ![s] = FALSE]
    /\ UNCHANGED <<next_id, currencies, product_purchase_orders, can_payment_term, authenticated, evaluated, cache_data,
                   select_vars, wizard_step, selected_df, details_df,
                   invoice_data, is_advance_payment, selected_payment_term,
                   last_created_invoice>>

\* An exception raised inside the with block at the current statement.
Raise(s, exc) ==
    FailureReturn(s, on_exception(exc, tx[s]),
                  rolled_back(purchase_invoices, tx[s].header),
                  rolled_back(purchase_invoice_details, tx[s].details))

\* Calls in flight that have not been given their invoice id yet.  A call
\* starts only while the table has an id left for it.
ids_in_demand ==
    Cardinality({o \in Sessions : pc[o] \in {"resolving_creator",
                                             "computing_totals",
                                             "inserting_header"}})

\* The flag is set and create_purchase_invoice is called with the stored
\* invoice_data and the de-duplicated details_df.
CallCreatePurchaseInvoice(s) ==
    /\ ~ IsNone(invoice_data[s])
    /\ ~ IsNone(details_df[s])
    /\ next_id + ids_in_demand <= MaxInvoiceId
    /\ invoice_creating' = [invoice_creating EXCEPT ![s] = TRUE]
    /\ pc' = [pc EXCEPT ![s] = "resolving_creator"]
    /\ LET details_df_final == drop_duplicates(Get(details_df[s]),
                                               "arrival_detail_id")
       IN  tx' = [tx EXCEPT ![s] = [NoTx EXCEPT
                     !.invoice_data = invoice_data[s],
                     !.details_df = details_df_final]]
    /\ result' = [result EXCEPT ![s] = None]
    /\ UNCHANGED <<db_vars, authenticated, evaluated, cache_data, select_vars, wizard_step,
                   selected_df, details_df, invoice_data, is_advance_payment,
                   selected_payment_term,
                   last_created_invoice>>

\* Variant: the handler does not look at invoice_creating.
CreateInvoice_unguarded(s) ==
    /\ authenticated[s]
    /\ wizard_step[s] = "confirm"
    /\ CallCreatePurchaseInvoice(s)

\* "Create Invoice": ignored while a creation runs in the session ("Invoice
\* creation already in progress"), else the call is made.
CreateInvoice(s) ==
    \/ /\ authenticated[s]
       /\ wizard_step[s] = "confirm"
       /\ invoice_creating[s]
       /\ UNCHANGED vars
    \/ /\ AtStep(s, "confirm")
       /\ ~ invoice_creating[s]
       /\ CallCreatePurchaseInvoice(s)

\* Variant: the call goes on with no creator.
ResolveCreator_unchecked(s, found) ==
    /\ pc[s] = "resolving_creator"
    /\ tx' = [tx EXCEPT ![s].keycloak_id = IF found THEN Some(s) ELSE None]
    /\ pc' = [pc EXCEPT ![s] = "computing_totals"]
    /\ UNCHANGED <<db_vars, authenticated, evaluated, cache_data, select_vars, wizard_vars, result>>

\* The keycloak_id query.  No row: "Invalid user" is returned from inside the
\* with block, which ends the (empty) transaction without an exception.
ResolveCreator(s, found) ==
    /\ pc[s] = "resolving_creator"
    /\ IF found
       THEN /\ tx' = [tx EXCEPT ![s].keycloak_id = Some(s)]
            /\ pc' = [pc EXCEPT ![s] = "computing_totals"]
            /\ UNCHANGED <<db_vars, authenticated, evaluated, cache_data, select_vars, wizard_vars, result>>
       ELSE FailureReturn(s,
                CallResult(FALSE, "Invalid user", None, "committed", tx[s]),
                committed(purchase_invoices, tx[s].header),
                committed(purchase_invoice_details, tx[s].details))

\* Variant: the first pass leaves the conversion out.
base_amount_unconverted(row, rate) ==
    row.buying_unit_cost[1] * row.uninvoiced_quantity * RateScale

\* First pass, per row: unit_cost (float(str.split()[0])) * quantity *
\* po_to_invoice_rate, not rounded (cents times RateScale).
base_amount_in_invoice_currency(row, rate) ==
    row.buying_unit_cost[1] * row.uninvoiced_quantity * rate

\* total_amount_exclude_vat after the first pass.
sum_base_amounts(df, rate) ==
    SumOver(df, [row \in df |-> base_amount_in_invoice_currency(row, rate)])

\* Second pass, per row: round(unit_cost * quantity * po_to_invoice_rate, 2).
line_amount_exclude_vat(row, rate) ==
    RoundDiv(row.buying_unit_cost[1] * row.uninvoiced_quantity * rate, RateScale)

\* Variant: the lines are inserted right after the totals, with no header.
ComputeTotals_skips_header(s) ==
    /\ pc[s] = "computing_totals"
    /\ tx' = [tx EXCEPT ![s].total_amount_exclude_vat = Some(0)]
    /\ pc' = [pc EXCEPT ![s] = "inserting_lines"]
    /\ UNCHANGED <<db_vars, authenticated, evaluated, cache_data, select_vars, wizard_vars, result>>

\* "First pass: calculate totals".  A None rate makes the product raise.
ComputeTotals(s) ==
    /\ pc[s] = "computing_totals"
    /\ LET rate == Get(tx[s].invoice_data).po_to_invoice_rate
       IN  IF IsNone(rate)
           THEN Raise(s, "TypeError")
           ELSE /\ tx' = [tx EXCEPT ![s].total_amount_exclude_vat = Some(
                           sum_base_amounts(tx[s].details_df, Get(rate)))]
                /\ pc' = [pc EXCEPT ![s] = "inserting_header"]
                /\ UNCHANGED <<db_vars, authenticated, evaluated, cache_data, select_vars, wizard_vars,
                               result>>

\* The uniqueness constraint on purchase_invoices.invoice_number.
invoice_number_taken(number) ==
    \E h \in purchase_invoices : h.invoice_number = number

\* Another transaction holds an uncommitted row with this number: the insert
\* waits for it to end.
invoice_number_locked(s, number) ==
    \E o \in Sessions \ {s} : \E h \in tx[o].header : h.invoice_number = number

header_row(id, inv, keycloak_id, total) ==
    [id |-> id,
     invoice_number |-> inv.invoice_number,
     total_invoiced_amount |-> inv.total_invoiced_amount,
     total_invoiced_amount_exclude_vat |-> RoundDiv(total, RateScale),
     seller_id |-> inv.seller_id,
     buyer_id |-> inv.buyer_id,
     currency |-> inv.invoice_currency_code,
     created_by |-> keycloak_id,
     commercial_invoice_no |-> IF inv.commercial_invoice_no = "" THEN None
                               ELSE Some(inv.commercial_invoice_no),
     usd_exchange_rate |-> inv.usd_exchange_rate,
     invoice_type |-> inv.invoice_type,
     advance_payment |-> inv.advance_payment]

\* INSERT INTO purchase_invoices; lastrowid is the next AUTO_INCREMENT value
\* (a value handed out is not handed out again, whatever the transaction does).
InsertHeader(s) ==
    /\ pc[s] = "inserting_header"
    /\ LET inv == Get(tx[s].invoice_data)
       IN  /\ ~ invoice_number_locked(s, inv.invoice_number)
           /\ IF invoice_number_taken(inv.invoice_number)
              THEN Raise(s, "IntegrityError")
              ELSE /\ tx' = [tx EXCEPT ![s].header = Some(
                              header_row(next_id, inv, tx[s].keycloak_id,
                                         Get(tx[s].total_amount_exclude_vat)))]
                   /\ next_id' = next_id + 1
                   /\ pc' = [pc EXCEPT ![s] = "inserting_lines"]
                   /\ UNCHANGED <<purchase_invoices, purchase_invoice_details,
                                  currencies, product_purchase_orders,
                                  can_payment_term,
                                  authenticated, evaluated, cache_data, select_vars, wizard_vars, result>>

\* Variant: the VAT rate is the vat_percent the arrival list showed.
vat_percent_of_selection(ppo_id, table) == vat_gst[ppo_id]

\* The VAT lookup of the loop: vat_gst of the live PO line in the table as it
\* is now; 0 when the row has no PO line id (0 here), when no live PO line is
\* found or when its vat_gst is NULL.
vat_percent_at_write(ppo_id, table) ==
    IF ppo_id # 0 /\ ppo_id \in DOMAIN table /\ ~ IsNone(table[ppo_id])
    THEN Get(table[ppo_id]) ELSE 0

\* Variant: the inclusive amount is taken from the unrounded product.
line_amount_include_vat_unrounded(row, rate, vat_percent) ==
    RoundDiv(row.buying_unit_cost[1] * row.uninvoiced_quantity * rate
               * (100 + vat_percent), RateScale * 100)

\* Variant: the inclusive amount is rounded to whole currency units.
amount_include_vat_cents_whole_units(amount_exclude_vat, vat_percent) ==
    RoundDiv(amount_exclude_vat * (100 + vat_percent), 100 * 100) * 100

\* vat_multiplier = 1 + vat_percent / 100;
\* amount_include_vat = round(amount_exclude_vat * vat_multiplier, 2), in cents.
amount_include_vat_cents(amount_exclude_vat, vat_percent) ==
    RoundDiv(amount_exclude_vat * (100 + vat_percent), 100)

\* round(amount_exclude_vat * (1 + vat_percent / 100), 2), on the rounded
\* amount_exclude_vat.
line_amount_include_vat(row, rate, vat_percent) ==
    amount_include_vat_cents(line_amount_exclude_vat(row, rate), vat_percent)

detail_row(invoice_id, row, rate, vat_percent) ==
    LET amount_exclude_vat == line_amount_exclude_vat(row, rate)
        amount_include_vat == line_amount_include_vat(row, rate, vat_percent)
    IN  [purchase_invoice_id |-> invoice_id,
         purchase_order_id |-> row.purchase_order_id,
         product_purchase_order_id |-> row.product_purchase_order_id,
         arrival_detail_id |-> row.arrival_detail_id,
         purchased_invoice_quantity |-> row.uninvoiced_quantity,
         amount |-> amount_include_vat,
         amount_exclude_vat |-> amount_exclude_vat,
         vat_gst |-> vat_percent,
         exchange_rate |-> rate]

\* The rows of the call's details_df the loop has not come to yet (each row
\* of the frame gets its detail row).
lines_to_insert(t) ==
    {row \in t.details_df :
        \A d \in t.details :
            \/ d.arrival_detail_id # row.arrival_detail_id
            \/ d.product_purchase_order_id # row.product_purchase_order_id}

\* One turn of the loop over details_df: the VAT lookup and the INSERT INTO
\* purchase_invoice_details of the next row.
InsertLine(s) ==
    /\ pc[s] = "inserting_lines"
    /\ lines_to_insert(tx[s]) # {}
    /\ LET row == first_row(lines_to_insert(tx[s]))
           d == detail_row(Get(tx[s].header).id, row,
                           Get(Get(tx[s].invoice_data).po_to_invoice_rate),
                           vat_percent_at_write(row.product_purchase_order_id,
                                                product_purchase_orders))
       IN  tx' = [tx EXCEPT ![s].details = @ \cup {d}]
    /\ pc' = [pc EXCEPT ![s] =
                 IF lines_to_insert(tx'[s]) = {} THEN "committing" ELSE @]
    /\ UNCHANGED <<db_vars, authenticated, evaluated, cache_data, select_vars, wizard_vars, result>>

\* st.session_state.last_created_invoice = {'id', 'number', 'amount',
\* 'currency'} of the success branch of "Create Invoice".
created_invoice_info(invoice_id, inv) ==
    [id |-> invoice_id,
     number |-> inv.invoice_number,
     amount |-> inv.total_invoiced_amount,
     currency |-> inv.invoice_currency_code]

\* reset_selection_state() on last_created_invoice: the key is not among
\* keys_to_keep, so it is deleted, and the function then sets it to None.
reset_last_created_invoice(stored) == None

\* The end of the with block commits; the call returns the invoice id; the
\* caller stores last_created_invoice, resets the session and reruns into
\* the select step.  reset_selection_state(): every key but the
\* authentication keys is deleted (the filter widgets and
\* last_created_invoice among them) and the wizard's keys are set afresh.
Commit(s) ==
    /\ pc[s] = "committing"
    /\ purchase_invoices' = committed(purchase_invoices, tx[s].header)
    /\ purchase_invoice_details' =
           committed(purchase_invoice_details, tx[s].details)
    /\ result' = [result EXCEPT ![s] = Some(
           CallResult(TRUE, "created successfully",
                      Some(Get(tx[s].header).id), "committed", tx[s]))]
    /\ pc' = [pc EXCEPT ![s] = "idle"]
    /\ tx' = [tx EXCEPT ![s] = NoTx]
    /\ selected_ans' = [selected_ans EXCEPT ![s] = {}]
    /\ filter_vendor' = [filter_vendor EXCEPT ![s] = {}]
    /\ current_page' = [current_page EXCEPT ![s] = 1]
    /\ wizard_step' = [wizard_step EXCEPT ![s] = "select"]
    /\ selected_df' = [selected_df EXCEPT ![s] = None]
    /\ details_df' = [details_df EXCEPT ![s] = None]
    /\ invoice_data' = [invoice_data EXCEPT ![s] = None]
    /\ is_advance_payment' = [is_advance_payment EXCEPT ![s] = FALSE]
    /\ invoice_creating' = [invoice_creating EXCEPT ![s] = FALSE]
    /\ selected_payment_term' = [selected_payment_term EXCEPT ![s] = None]
    /\ last_created_invoice' = [last_created_invoice EXCEPT ![s] =
           reset_last_created_invoice(
               Some(created_invoice_info(Get(tx[s].header).id,
                                         Get(tx[s].invoice_data))))]
    /\ UNCHANGED <<next_id, currencies, product_purchase_orders, can_payment_term, authenticated, evaluated, cache_data>>

\* A statement of the call fails (the connection is lost, the server refuses
\* the statement): the keycloak query, an insert, a VAT lookup, the commit.
StatementFails(s) ==
    /\ pc[s] \in {"resolving_creator", "inserting_header", "inserting_lines",
                  "committing"}
    /\ Raise(s, "OperationalError")

(***************************************************************************)
(* The system.                                                             *)
(***************************************************************************)
\* No read-only function has been evaluated on its own.
NoEvaluation == [fn |-> "", args |-> <<>>, value |-> <<>>]

\* The PO lines as they were when the arrival list was loaded.
PoLinesAtSelection == [ppo_id \in DOMAIN vat_gst |-> Some(vat_gst[ppo_id])]

InitWithTerms(logged_in, currency_codes, headers, details, terms) ==
    /\ evaluated = NoEvaluation
    /\ cache_data = {}
    /\ currencies = currency_codes
    /\ product_purchase_orders = PoLinesAtSelection
    /\ can_payment_term = terms
    /\ purchase_invoices = headers
    /\ purchase_invoice_details = details
    /\ next_id = Cardinality(headers) + 1
    /\ authenticated = [s \in Sessions |-> s \in logged_in]
    /\ wizard_step = [s \in Sessions |-> "select"]
    /\ selected_ans = [s \in Sessions |-> {}]
    /\ filter_vendor = [s \in Sessions |-> {}]
    /\ current_page = [s \in Sessions |-> 1]
    /\ selected_df = [s \in Sessions |-> None]
    /\ details_df = [s \in Sessions |-> None]
    /\ invoice_data = [s \in Sessions |-> None]
    /\ is_advance_payment = [s \in Sessions |-> FALSE]
    /\ invoice_creating = [s \in Sessions |-> FALSE]
    /\ last_created_invoice = [s \in Sessions |-> None]
    /\ selected_payment_term = [s \in Sessions |-> None]
    /\ pc = [s \in Sessions |-> "idle"]
    /\ tx = [s \in Sessions |-> NoTx]
    /\ result = [s \in Sessions |-> None]

\* The same, no arrival line having a payment term.
InitWith(logged_in, currency_codes, headers, details) ==
    InitWithTerms(logged_in, currency_codes, headers, details, NoPaymentTerms)

\* An invoice created earlier: arrival line 3, PO in EUR, invoiced in USD at
\* a rate of 0.33.
EarlierInvoiceData ==
    [invoice_number |-> format_invoice_number(first_row(Rows({3})).vendor_id,
                                              first_row(Rows({3})).entity_id,
                                              Digits(1), "P"),
     commercial_invoice_no |-> "CI-0",
     total_invoiced_amount |-> invoice_totals(Rows({3}), Some(33)),
     invoice_currency_code |-> "USD",
     usd_exchange_rate |-> Some(RateScale),
     seller_id |-> first_row(Rows({3})).vendor_id,
     buyer_id |-> first_row(Rows({3})).entity_id,
     invoice_type |-> "COMMERCIAL_INVOICE",
     advance_payment |-> 0,
     po_currency_code |-> "EUR",
     po_to_invoice_rate |-> Some(33)]

EarlierInvoices ==
    {header_row(1, EarlierInvoiceData, Some("s2"),
                sum_base_amounts(Rows({3}), 33))}

EarlierDetails ==
    {detail_row(1, row, 33, vat_gst[row.product_purchase_order_id]) :
        row \in Rows({3})}

\* One user at work on commercial invoices, the currencies table holding
\* USD, the database holding the earlier invoice.
Init == InitWith({"s1"}, {"USD"}, EarlierInvoices, EarlierDetails)

Next ==
    \E s \in Sessions :
        \/ \E l \in CanLines : ToggleRow(s, l)
        \/ SelectAllPage(s)
        \/ \E vendors \in {{}} \cup {{v} : v \in VendorCodes} : SetFilter(s, vendors)
        \/ ResetFilters(s)
        \/ \E page \in 1..Cardinality(CanLines) : ChangePage(s, page)
        \/ \E can_invoice \in BOOLEAN : ProceedToPreview(s, can_invoice)
        \/ BackToSelection(s)
        \/ \E cur \in Currencies, po_rate \in OptRates(ProviderRates),
              usd_rate \in OptRates(UsdRates), ci_no \in {"", "CI-1"},
              query_ok \in BOOLEAN :
              ReviewAndConfirm(s, cur, po_rate, usd_rate, ci_no, query_ok)
        \/ BackToPreview(s)
        \/ CreateInvoice(s)
        \/ \E found \in BOOLEAN : ResolveCreator(s, found)
        \/ ComputeTotals(s)
        \/ InsertHeader(s)
        \/ InsertLine(s)
        \/ Commit(s)
        \/ StatementFails(s)

Spec == Init /\ [][Next]_vars

(***************************************************************************)
(* From the preview to the submission, two users at work on commercial and *)
(* advance-payment invoices, the currencies table holding two currencies.  *)
(* Each session starts where "Proceed to Preview" leaves it, with an       *)
(* unfiltered selection that validates.                                    *)
(***************************************************************************)
PreviewSelections == {{1, 2}}

InitAtPreview ==
    /\ evaluated = NoEvaluation
    /\ cache_data = {}
    /\ currencies = Currencies
    /\ product_purchase_orders = PoLinesAtSelection
    /\ can_payment_term = NoPaymentTerms
    /\ purchase_invoices = {}
    /\ purchase_invoice_details = {}
    /\ next_id = 1
    /\ authenticated = [s \in Sessions |-> TRUE]
    /\ wizard_step = [s \in Sessions |-> "preview"]
    /\ selected_ans \in [Sessions -> PreviewSelections]
    /\ filter_vendor = [s \in Sessions |-> {}]
    /\ current_page = [s \in Sessions |-> 1]
    /\ selected_df = [s \in Sessions |-> Some(Rows(selected_ans[s]))]
    /\ details_df = [s \in Sessions |->
                        Some(get_invoice_details(selected_ans[s]))]
    /\ invoice_data = [s \in Sessions |-> None]
    /\ is_advance_payment = [s \in Sessions |-> FALSE]
    /\ invoice_creating = [s \in Sessions |-> FALSE]
    /\ last_created_invoice = [s \in Sessions |-> None]
    /\ selected_payment_term = [s \in Sessions |->
          Some(render_payment_term(None, Rows(selected_ans[s]), TRUE))]
    /\ pc = [s \in Sessions |-> "idle"]
    /\ tx = [s \in Sessions |-> NoTx]
    /\ result = [s \in Sessions |-> None]

NextSubmit ==
    \E s \in Sessions :
        \/ ToggleAdvancePayment(s)
        \/ \E cur \in Currencies, po_rate \in OptRates(ProviderRates),
              usd_rate \in OptRates(UsdRates), ci_no \in {"", "CI-1"},
              query_ok \in BOOLEAN :
              ReviewAndConfirm(s, cur, po_rate, usd_rate, ci_no, query_ok)
        \/ BackToPreview(s)
        \/ CreateInvoice(s)
        \/ \E found \in BOOLEAN : ResolveCreator(s, found)
        \/ ComputeTotals(s)
        \/ InsertHeader(s)
        \/ InsertLine(s)
        \/ Commit(s)
        \/ StatementFails(s)

SpecSubmit == InitAtPreview /\ [][NextSubmit]_vars

\* The same, with the scheduling of the code: a call that has started runs
\* on (the script is synchronous), each statement returning or failing.
CallStep(s) ==
    \/ \E found \in BOOLEAN : ResolveCreator(s, found)
    \/ ComputeTotals(s)
    \/ InsertHeader(s)
    \/ InsertLine(s)
    \/ Commit(s)
    \/ StatementFails(s)

FairSubmit == SpecSubmit /\ \A s \in Sessions : WF_vars(CallStep(s))

(***************************************************************************)
(* create_purchase_invoice on its own: one call, its arguments drawn from  *)
(* the invoices a session can confirm over a view of up to MaxCallLines    *)
(* arrival lines of one vendor, with the costs, quantities and rates below.*)
(***************************************************************************)
MaxCallLines == 3
CallCosts == {3, 101}
CallQuantities == {1, 3}
CallRates == {33, 50, RateScale}

\* Arrival line l of vendor V1 with the given unit cost and quantity.
CallRow(l, cost, qty) ==
    [can_tracking_full_view[1] EXCEPT
        !.can_line_id = l, !.arrival_detail_id = l,
        !.buying_unit_cost = <<cost, "USD">>,
        !.uninvoiced_quantity = qty,
        !.product_purchase_order_id = ((l - 1) % 3) + 1]

CallDetails ==
    UNION {{ {CallRow(l, f[l][1], f[l][2]) : l \in 1..n} :
              f \in [1..n -> CallCosts \X CallQuantities]} : n \in 1..MaxCallLines}

\* invoice_data as "Review & Confirm" stores it for these rows and this rate
\* (rate 1.00: the invoice is in the PO currency).
CallInvoiceData(rows, rate) ==
    [invoice_number |-> generate_invoice_number(first_row(rows).vendor_id,
                                                first_row(rows).entity_id,
                                                FALSE, TRUE),
     commercial_invoice_no |-> "CI-1",
     total_invoiced_amount |-> invoice_totals(rows, Some(rate)),
     invoice_currency_code |-> IF rate = RateScale THEN "USD" ELSE "EUR",
     usd_exchange_rate |-> IF rate = RateScale THEN Some(RateScale) ELSE None,
     seller_id |-> first_row(rows).vendor_id,
     buyer_id |-> first_row(rows).entity_id,
     invoice_type |-> "COMMERCIAL_INVOICE",
     advance_payment |-> 0,
     po_currency_code |-> "USD",
     po_to_invoice_rate |-> Some(rate)]

InitAtCall ==
    \E rows \in CallDetails, rate \in CallRates :
        /\ evaluated = NoEvaluation
        /\ cache_data = {}
        /\ currencies = Currencies
        /\ product_purchase_orders = PoLinesAtSelection
        /\ can_payment_term = NoPaymentTerms
        /\ purchase_invoices = {}
        /\ purchase_invoice_details = {}
        /\ next_id = 1
        /\ authenticated = [s \in Sessions |-> s = "s1"]
        /\ wizard_step = [s \in Sessions |->
                             IF s = "s1" THEN "confirm" ELSE "select"]
        /\ selected_ans = [s \in Sessions |->
                              IF s = "s1" THEN Ids(rows) ELSE {}]
        /\ filter_vendor = [s \in Sessions |-> {}]
        /\ current_page = [s \in Sessions |-> 1]
        /\ selected_df = [s \in Sessions |->
                             IF s = "s1" THEN Some(rows) ELSE None]
        /\ details_df = [s \in Sessions |->
                            IF s = "s1" THEN Some(rows) ELSE None]
        /\ invoice_data = [s \in Sessions |->
                              IF s = "s1" THEN Some(CallInvoiceData(rows, rate))
                              ELSE None]
        /\ is_advance_payment = [s \in Sessions |-> FALSE]
        /\ invoice_creating = [s \in Sessions |-> s = "s1"]
        /\ last_created_invoice = [s \in Sessions |-> None]
        /\ selected_payment_term = [s \in Sessions |->
              IF s = "s1" THEN Some(render_payment_term(None, rows, TRUE))
              ELSE None]
        /\ pc = [s \in Sessions |->
                    IF s = "s1" THEN "resolving_creator" ELSE "idle"]
        /\ tx = [s \in Sessions |->
                    IF s = "s1"
                    THEN [NoTx EXCEPT
                             !.invoice_data = Some(CallInvoiceData(rows, rate)),
                             !.details_df = rows]
                    ELSE NoTx]
        /\ result = [s \in Sessions |-> None]

\* The purchasing side edits vat_gst of a PO line of the running call (or
\* clears it) while the invoice is being created.
UpdatePoLineVat(ppo_id, vat) ==
    /\ \E s \in Sessions : \E row \in lines_to_insert(tx[s]) :
           row.product_purchase_order_id = ppo_id
    /\ product_purchase_orders[ppo_id] # vat
    /\ product_purchase_orders' = [product_purchase_orders EXCEPT ![ppo_id] = vat]
    /\ UNCHANGED <<purchase_invoices, purchase_invoice_details, next_id,
                   currencies, can_payment_term, authenticated, evaluated,
                   cache_data, select_vars, wizard_vars, call_vars, result>>

NextCreate ==
    \/ \E s \in Sessions : CallStep(s)
    \/ \E ppo_id \in DOMAIN vat_gst, vat \in OptRates(VatRates) :
          UpdatePoLineVat(ppo_id, vat)

SpecCreate == InitAtCall /\ [][NextCreate]_vars

(***************************************************************************)
(* The read-only functions of utils/invoice_data.py, each evaluated on its *)
(* own over a database that holds the invoices 1..n, 0 <= n <=             *)
(* MaxInvoiceId.                                                           *)
(***************************************************************************)
\* The header of an invoice created earlier under id `id`.
StoredHeader(id) ==
    header_row(id,
               [EarlierInvoiceData EXCEPT !.invoice_number =
                   format_invoice_number(EarlierInvoiceData.seller_id,
                                         EarlierInvoiceData.buyer_id,
                                         Digits(id), "P")],
               Some("s2"), sum_base_amounts(Rows({3}), 33))

InitFunctions ==
    \E n \in 0..MaxInvoiceId :
        InitWith({}, Currencies, {StoredHeader(id) : id \in 1..n}, {})

\* fn(args) is evaluated, once, and gives value; nothing else changes.
Evaluate(fn, args, value) ==
    /\ evaluated.fn = NoEvaluation.fn
    /\ evaluated' = [fn |-> fn, args |-> args, value |-> value]
    /\ UNCHANGED <<db_vars, authenticated, cache_data, select_vars, wizard_vars,
                   call_vars, result>>

VendorIds == {can_tracking_full_view[l].vendor_id : l \in CanLines}
BuyerIds == {can_tracking_full_view[l].entity_id : l \in CanLines}

call_generate_invoice_number(vendor_id, buyer_id, is_advance, query_ok) ==
    Evaluate("generate_invoice_number",
             <<vendor_id, buyer_id, is_advance, query_ok>>,
             generate_invoice_number(vendor_id, buyer_id, is_advance, query_ok))

\* Frames of up to MaxFrameRows rows over every combination of vendor code,
\* vendor type and legal-entity code (the columns validate_invoice_selection
\* reads).
VendorTypes == {can_tracking_full_view[l].vendor_type : l \in CanLines}
EntityCodes == {can_tracking_full_view[l].legal_entity_code : l \in CanLines}
FrameRows ==
    {[vendor_code |-> v, vendor_type |-> t, legal_entity_code |-> e] :
        v \in VendorCodes, t \in VendorTypes, e \in EntityCodes}
Frames == {df \in SUBSET FrameRows : Cardinality(df) <= MaxFrameRows}

call_validate_invoice_selection(df) ==
    Evaluate("validate_invoice_selection", <<df>>,
             validate_invoice_selection(df))

(***************************************************************************)
(* calculate_days_from_term_name(term_name).  A label is a string made of   *)
(* the pieces below, written one after the other: "Net " (with its space),  *)
(* a digit, a minus sign, a blank, a letter that is part of none of the     *)
(* other pieces, and the words the function looks for.                      *)
(***************************************************************************)
LabelPieces ==
    {"Net ", "4", "5", "-", " ", "x", "COD", "CIA", "TT IN ADVANCE", "Advance"}

RECURSIVE LabelsOfLen(_)
LabelsOfLen(n) ==
    IF n = 0 THEN {<<>>}
    ELSE {Append(label, piece) : label \in LabelsOfLen(n - 1), piece \in LabelPieces}

Labels == UNION {LabelsOfLen(n) : n \in 0..MaxLabelLen}

\* term_name.startswith('Net ').
starts_with_net(label) == Len(label) > 0 /\ label[1] = "Net "

\* term_name.replace('Net ', ''): every occurrence is taken out.
replace_net(label) == SelectSeq(label, LAMBDA piece : piece # "Net ")

RECURSIVE first_word(_)
\* text.split()[0]: leading blanks are skipped and the word ends at the next
\* blank (a blank inside a piece ends it too); <<>> when there is no word
\* (IndexError in the code).
first_word(text) ==
    IF text = <<>> THEN <<>>
    ELSE IF Head(text) = " " THEN first_word(Tail(text))
    ELSE LET rest == Tail(text)
         IN  IF Head(text) = "TT IN ADVANCE" THEN <<"TT">>
             ELSE IF rest = <<>> \/ Head(rest) = " " THEN <<Head(text)>>
             ELSE LET more == first_word(rest)
                  IN  <<Head(text)>> \o more

RECURSIVE digits_value(_)
\* The number a word of digits spells.
digits_value(word) ==
    IF word = <<>> THEN 0
    ELSE 10 * digits_value(SubSeq(word, 1, Len(word) - 1))
           + (IF word[Len(word)] = "4" THEN 4 ELSE 5)

\* int(word) goes through: digits, with or without a sign in front.
int_parses(word) ==
    LET all_digits(w) == w # <<>> /\ \A i \in 1..Len(w) : w[i] \in {"4", "5"}
    IN  \/ all_digits(word)
        \/ Len(word) > 1 /\ word[1] = "-" /\ all_digits(Tail(word))

\* int(word), for a word that parses.
int_value(word) ==
    IF word[1] = "-" THEN 0 - digits_value(Tail(word)) ELSE digits_value(word)

\* calculate_days_from_term_name; term_name is None (pd.isna) or a label.
calculate_days_from_term_name(term_name) ==
    IF IsNone(term_name) THEN 30
    ELSE LET label == Get(term_name)
         IN  IF starts_with_net(label)
             THEN LET days_str == first_word(replace_net(label))
                  IN  IF int_parses(days_str) THEN int_value(days_str) ELSE 30
             ELSE IF \/ label \in {<<"COD">>, <<"CIA">>, <<"TT IN ADVANCE">>}
                     \/ \E i \in 1..Len(label) : label[i] = "Advance"
                  THEN 0
             ELSE 30

call_calculate_days_from_term_name(term_name) ==
    Evaluate("calculate_days_from_term_name", <<term_name>>,
             calculate_days_from_term_name(term_name))

(***************************************************************************)
(* The quantity columns of get_uninvoiced_ans.                             *)
(***************************************************************************)
\* Quantities the view reports: a pending quantity is negative on an
\* over-invoiced PO line.
Quantities == (0 - MaxQuantity)..MaxQuantity

\* Variant: the lesser of the two quantities, not floored at 0.
true_remaining_qty_unfloored(uninvoiced_quantity, po_line_pending_invoiced_qty) ==
    IF uninvoiced_quantity < po_line_pending_invoiced_qty
    THEN uninvoiced_quantity ELSE po_line_pending_invoiced_qty

\* GREATEST(0, LEAST(can.uninvoiced_quantity, can.po_line_pending_invoiced_qty)).
true_remaining_qty(uninvoiced_quantity, po_line_pending_invoiced_qty) ==
    LET least == IF uninvoiced_quantity < po_line_pending_invoiced_qty
                 THEN uninvoiced_quantity ELSE po_line_pending_invoiced_qty
    IN  IF least > 0 THEN least ELSE 0

\* The quantity columns of the rows get_uninvoiced_ans returns over the
\* lines of view: WHERE can.uninvoiced_quantity > 0.
uninvoiced_rows(view) ==
    {[uninvoiced_quantity |-> can.uninvoiced_quantity,
      po_line_pending_invoiced_qty |-> can.po_line_pending_invoiced_qty,
      true_remaining_qty |-> true_remaining_qty(can.uninvoiced_quantity,
                                 can.po_line_pending_invoiced_qty)] :
        can \in {line \in view : line.uninvoiced_quantity > 0}}

call_get_uninvoiced_ans(view) ==
    Evaluate("get_uninvoiced_ans", <<view>>, uninvoiced_rows(view))

(***************************************************************************)
(* get_po_line_summary(po_line_ids), over a database of PO lines 1 and 2,   *)
(* a live invoice 1, a deleted invoice 2 and up to MaxSummaryDetails        *)
(* invoice-detail records.  The result is the list of the rows read.       *)
(***************************************************************************)
\* product_purchase_orders joined with purchase_orders: line 1 with either
\* quantity, live, deleted or on a deleted PO; line 2 live.
SummaryPoLines ==
    {1 :> [purchase_quantity |-> line[1], delete_flag |-> line[2],
           po_delete_flag |-> line[3]]
     @@ 2 :> [purchase_quantity |-> 1, delete_flag |-> 0, po_delete_flag |-> 0] :
        line \in {<<1, 0, 0>>, <<MaxQuantity, 0, 0>>, <<1, 1, 0>>, <<1, 0, 1>>}}

\* purchase_invoices: delete_flag by id.
SummaryInvoices == 1 :> [delete_flag |-> 0] @@ 2 :> [delete_flag |-> 1]

\* purchase_invoice_details: record i has quantity 1 when i is odd and
\* MaxQuantity when i is even; arrival_detail_id is none for a legacy record;
\* a record is live on the live invoice, deleted, or live on the deleted one.
SummaryDetails ==
    UNION {{[i \in 1..n |->
               [product_purchase_order_id |-> f[i][1],
                arrival_detail_id |-> f[i][2],
                delete_flag |-> f[i][3][1],
                purchase_invoice_id |-> f[i][3][2],
                purchased_invoice_quantity |->
                    IF i % 2 = 1 THEN 1 ELSE MaxQuantity]] :
              f \in [1..n -> {1, 2} \X {None, Some(1)}
                                \X {<<0, 1>>, <<1, 1>>, <<0, 2>>}]} :
              n \in 0..MaxSummaryDetails}

\* Input lists, with repeated and overlapping ids.
SummaryIdLists == {<<>>, <<1>>, <<1, 1>>, <<2, 1, 2>>}

\* Variant: one row is read for each id of the input list.
get_po_line_summary_row_per_id(po_line_ids, ppo, pid, pi) ==
    LET RECURSIVE sum(_, _)
        sum(records, i) ==
            IF i = 0 THEN 0
            ELSE sum(records, i - 1)
                   + (IF i \in records THEN pid[i].purchased_invoice_quantity
                      ELSE 0)
        counted(ppo_id, legacy) ==
            {i \in 1..Len(pid) :
                /\ pid[i].product_purchase_order_id = ppo_id
                /\ IsNone(pid[i].arrival_detail_id) = legacy
                /\ pid[i].delete_flag = 0
                /\ pi[pid[i].purchase_invoice_id].delete_flag = 0}
        row(ppo_id) ==
            LET legacy_invoice_qty == sum(counted(ppo_id, TRUE), Len(pid))
                new_invoice_qty == sum(counted(ppo_id, FALSE), Len(pid))
            IN  [product_purchase_order_id |-> ppo_id,
                 po_buying_qty |-> ppo[ppo_id].purchase_quantity,
                 legacy_invoice_qty |-> legacy_invoice_qty,
                 new_invoice_qty |-> new_invoice_qty,
                 po_remaining_qty |-> ppo[ppo_id].purchase_quantity
                                        - (legacy_invoice_qty + new_invoice_qty)]
        read == SelectSeq(po_line_ids,
                          LAMBDA ppo_id : /\ ppo[ppo_id].delete_flag = 0
                                          /\ ppo[ppo_id].po_delete_flag = 0)
    IN  [i \in 1..Len(read) |-> row(read[i])]

\* get_po_line_summary(po_line_ids) over the tables ppo (PO lines with their
\* PO), pid (invoice details) and pi (invoices): the two sums of the CTEs,
\* COALESCEd to 0, and one row for each live PO line of a live PO whose id is
\* IN the list; an empty list gives an empty frame.
get_po_line_summary(po_line_ids, ppo, pid, pi) ==
    LET RECURSIVE sum(_, _)
        sum(records, i) ==
            IF i = 0 THEN 0
            ELSE sum(records, i - 1)
                   + (IF i \in records THEN pid[i].purchased_invoice_quantity
                      ELSE 0)
        counted(ppo_id, legacy) ==
            {i \in 1..Len(pid) :
                /\ pid[i].product_purchase_order_id = ppo_id
                /\ IsNone(pid[i].arrival_detail_id) = legacy
                /\ pid[i].delete_flag = 0
                /\ pi[pid[i].purchase_invoice_id].delete_flag = 0}
        row(ppo_id) ==
            LET legacy_invoice_qty == sum(counted(ppo_id, TRUE), Len(pid))
                new_invoice_qty == sum(counted(ppo_id, FALSE), Len(pid))
            IN  [product_purchase_order_id |-> ppo_id,
                 po_buying_qty |-> ppo[ppo_id].purchase_quantity,
                 legacy_invoice_qty |-> legacy_invoice_qty,
                 new_invoice_qty |-> new_invoice_qty,
                 po_remaining_qty |-> ppo[ppo_id].purchase_quantity
                                        - (legacy_invoice_qty + new_invoice_qty)]
        read == SelectSeq(<<1, 2>>,
                          LAMBDA ppo_id : /\ ppo_id \in Range(po_line_ids)
                                          /\ ppo[ppo_id].delete_flag = 0
                                          /\ ppo[ppo_id].po_delete_flag = 0)
    IN  IF po_line_ids = <<>> THEN <<>>
        ELSE [i \in 1..Len(read) |-> row(read[i])]

call_get_po_line_summary ==
    /\ evaluated.fn = NoEvaluation.fn
    /\ \E po_line_ids \in SummaryIdLists, ppo \in SummaryPoLines,
          pid \in SummaryDetails :
          Evaluate("get_po_line_summary", <<po_line_ids, ppo, pid>>,
                   get_po_line_summary(po_line_ids, ppo, pid, SummaryInvoices))

\* Amounts excluding VAT of a detail row (cents) and the VAT percents of a PO
\* line (0 when vat_gst is NULL or the line is gone).
MaxAmountCents == 150
AmountVatPercents == {0, 5} \cup VatRates

call_amount_include_vat ==
    /\ evaluated.fn = NoEvaluation.fn
    /\ \E amount_exclude_vat \in 0..MaxAmountCents,
          vat_percent \in AmountVatPercents :
          Evaluate("amount_include_vat", <<amount_exclude_vat, vat_percent>>,
                   amount_include_vat_cents(amount_exclude_vat, vat_percent))

NextFunctions ==
    \/ call_get_po_line_summary
    \/ call_amount_include_vat
    \/ \E uninvoiced \in Quantities, pending \in Quantities :
          call_get_uninvoiced_ans({[uninvoiced_quantity |-> uninvoiced,
                                    po_line_pending_invoiced_qty |-> pending]})
    \/ \E term_name \in {None} \cup {Some(label) : label \in Labels} :
          call_calculate_days_from_term_name(term_name)
    \/ \E df \in Frames : call_validate_invoice_selection(df)
    \/ \E vendor_id \in VendorIds, buyer_id \in BuyerIds,
          is_advance \in BOOLEAN, query_ok \in BOOLEAN :
          call_generate_invoice_number(vendor_id, buyer_id, is_advance, query_ok)

SpecFunctions == InitFunctions /\ [][NextFunctions]_vars

(***************************************************************************)
(* The PO-line summary of the select step, read through st.cache_data      *)
(* while another session creates an invoice.  Session s1 is at the confirm *)
(* step with an invoice of arrival lines of PO 1; session s2 is at the     *)
(* select step with lines of PO 1 selected and runs the script again and   *)
(* again.                                                                  *)
(***************************************************************************)
RECURSIVE SetToSeq(_)
\* The rows of a table, in some order.
SetToSeq(S) ==
    IF S = {} THEN <<>>
    ELSE LET x == CHOOSE y \in S : TRUE
         IN  <<x>> \o SetToSeq(S \ {x})

\* product_purchase_orders joined with purchase_orders for the PO lines of
\* PO 1: a live line of a live PO, ordered in the quantity that arrived.
po_lines_of_database ==
    [ppo_id \in {1, 2} |->
        [purchase_quantity |-> can_tracking_full_view[ppo_id].uninvoiced_quantity,
         delete_flag |-> 0, po_delete_flag |-> 0]]

\* The committed purchase_invoice_details, as create_purchase_invoice writes
\* them: with their arrival line and delete_flag 0.
invoice_details_of_database ==
    SetToSeq({[product_purchase_order_id |-> d.product_purchase_order_id,
               arrival_detail_id |-> Some(d.arrival_detail_id),
               delete_flag |-> 0,
               purchase_invoice_id |-> d.purchase_invoice_id,
               purchased_invoice_quantity |-> d.purchased_invoice_quantity] :
                 d \in purchase_invoice_details})

\* The committed purchase_invoices, written with delete_flag 0.
invoices_of_database ==
    [id \in {h.id : h \in purchase_invoices} |-> [delete_flag |-> 0]]

\* What the query of get_po_line_summary gives on the database as it is.
query_po_line_summary(po_line_ids) ==
    get_po_line_summary(po_line_ids, po_lines_of_database,
                        invoice_details_of_database, invoices_of_database)

\* selected_df['product_purchase_order_id'].unique().tolist() of the rows of
\* the filtered list whose id is in the selection set.
selected_po_line_ids(s) ==
    LET selected == SelectSeq(cur_df(s), LAMBDA l : l \in selected_ans[s])
    IN  [i \in 1..Len(selected) |->
            can_tracking_full_view[selected[i]].product_purchase_order_id]

\* The entries st.cache_data holds for fn(args).
cache_entries(fn, args) ==
    {entry \in cache_data : entry.fn = fn /\ entry.args = args}

\* @st.cache_data(ttl=60) around get_po_line_summary: the value of the entry
\* held for these arguments, or else the value the query gives now.
cached_po_line_summary(po_line_ids) ==
    LET held == cache_entries("get_po_line_summary", po_line_ids)
    IN  IF held # {} THEN (CHOOSE entry \in held : TRUE).value
        ELSE query_po_line_summary(po_line_ids)

\* A run of the script at the select step with a selection: the summary block
\* calls get_po_line_summary, which answers from the cache or runs the query
\* and stores its answer.  The evaluation is recorded with the invoice details
\* the database held when the call was made.
ShowSelectionSummary(s) ==
    /\ AtStep(s, "select")
    /\ ShowLastCreatedInvoice(s)
    /\ selected_ans[s] # {}
    /\ LET po_line_ids == selected_po_line_ids(s)
           value == cached_po_line_summary(po_line_ids)
       IN  /\ evaluated' = [fn |-> "show_an_selection: get_po_line_summary",
                            args |-> <<po_line_ids, invoice_details_of_database>>,
                            value |-> value]
           /\ cache_data' = cache_data \cup
                  {[fn |-> "get_po_line_summary", args |-> po_line_ids,
                    value |-> value]}
    /\ result' = [result EXCEPT ![s] = None]
    /\ UNCHANGED <<db_vars, authenticated, select_vars, wizard_step_vars, call_vars>>

\* The ttl of an entry runs out.
CacheEntryExpires ==
    /\ \E entry \in cache_data : cache_data' = cache_data \ {entry}
    /\ UNCHANGED <<db_vars, authenticated, evaluated, select_vars, wizard_vars,
                   call_vars, result>>

\* The arrival lines of the invoice s1 is about to create, and the
\* selections of s2.
CacheInvoiceLines == {{1}, {1, 2}}
CacheSelections == {{1}, {2}, {1, 2}}

InitCache ==
    \E ids \in CacheInvoiceLines, selection \in CacheSelections :
        /\ evaluated = NoEvaluation
        /\ cache_data = {}
        /\ currencies = Currencies
        /\ product_purchase_orders = PoLinesAtSelection
        /\ can_payment_term = NoPaymentTerms
        /\ purchase_invoices = {}
        /\ purchase_invoice_details = {}
        /\ next_id = 1
        /\ authenticated = [s \in Sessions |-> TRUE]
        /\ wizard_step = [s \in Sessions |->
                             IF s = "s1" THEN "confirm" ELSE "select"]
        /\ selected_ans = [s \in Sessions |->
                              IF s = "s1" THEN ids ELSE selection]
        /\ filter_vendor = [s \in Sessions |-> {}]
        /\ current_page = [s \in Sessions |-> 1]
        /\ selected_df = [s \in Sessions |->
                             IF s = "s1" THEN Some(Rows(ids)) ELSE None]
        /\ details_df = [s \in Sessions |->
                            IF s = "s1" THEN Some(get_invoice_details(ids))
                            ELSE None]
        /\ invoice_data = [s \in Sessions |->
                              IF s = "s1"
                              THEN Some(CallInvoiceData(Rows(ids), RateScale))
                              ELSE None]
        /\ is_advance_payment = [s \in Sessions |-> FALSE]
        /\ invoice_creating = [s \in Sessions |-> FALSE]
        /\ last_created_invoice = [s \in Sessions |-> None]
        /\ selected_payment_term = [s \in Sessions |->
              IF s = "s1"
              THEN Some(render_payment_term(None, Rows(ids), TRUE))
              ELSE None]
        /\ pc = [s \in Sessions |-> "idle"]
        /\ tx = [s \in Sessions |-> NoTx]
        /\ result = [s \in Sessions |-> None]

NextCache ==
    \/ \E s \in Sessions : CreateInvoice(s)
    \/ \E s \in Sessions : CallStep(s)
    \/ \E s \in Sessions : ShowSelectionSummary(s)
    \/ CacheEntryExpires

SpecCache == InitCache /\ [][NextCache]_vars

(***************************************************************************)
(* One user going back and forth through the wizard over the unfiltered     *)
(* first page of the list, arrival lines 1 and 2 having different payment   *)
(* terms, the database holding the earlier invoice.                         *)
(***************************************************************************)
InitTerms ==
    InitWithTerms({"s1"}, {"USD"}, EarlierInvoices, EarlierDetails,
                  LinePaymentTerms)

NextTerms ==
    \E s \in Sessions :
        \/ \E l \in CanLines : ToggleRow(s, l)
        \/ \E can_invoice \in BOOLEAN : ProceedToPreview(s, can_invoice)
        \/ BackToSelection(s)
        \/ \E term \in Range(TermOrder) : ChoosePaymentTerm(s, term)
        \/ \E cur \in Currencies, po_rate \in OptRates(ProviderRates),
              usd_rate \in OptRates(UsdRates), ci_no \in {"", "CI-1"},
              query_ok \in BOOLEAN :
              ReviewAndConfirm(s, cur, po_rate, usd_rate, ci_no, query_ok)
        \/ BackToPreview(s)
        \/ CreateInvoice(s)
        \/ CallStep(s)

SpecTerms == InitTerms /\ [][NextTerms]_vars

(***************************************************************************)
(* One user going back and forth through the wizard over the unfiltered     *)
(* first page of the list, ticking and unticking the "Advance Payment       *)
(* Invoice" box, the database holding the earlier invoice.                  *)
(***************************************************************************)
NextType ==
    \E s \in Sessions :
        \/ \E l \in CanLines : ToggleRow(s, l)
        \/ \E can_invoice \in BOOLEAN : ProceedToPreview(s, can_invoice)
        \/ BackToSelection(s)
        \/ ToggleAdvancePayment(s)
        \/ \E cur \in Currencies, po_rate \in OptRates(ProviderRates),
              usd_rate \in OptRates(UsdRates), ci_no \in {"", "CI-1"},
              query_ok \in BOOLEAN :
              ReviewAndConfirm(s, cur, po_rate, usd_rate, ci_no, query_ok)
        \/ BackToPreview(s)
        \/ CreateInvoice(s)
        \/ CallStep(s)

SpecType == Init /\ [][NextType]_vars

(***************************************************************************)
(* Two users at the confirm step, each with a commercial or an              *)
(* advance-payment invoice whose number was generated and whose details     *)
(* were loaded before either pressed "Create Invoice"; both invoices hold   *)
(* arrival line 1.                                                          *)
(***************************************************************************)
RaceInvoiceLines == {{1}, {1, 2}}

\* invoice_data as "Review & Confirm" stores it for these rows, in the PO
\* currency, with or without the "Advance Payment Invoice" box ticked.
RaceInvoiceData(rows, is_advance) ==
    [CallInvoiceData(rows, RateScale) EXCEPT
        !.invoice_number = generate_invoice_number(first_row(rows).vendor_id,
                                                   first_row(rows).entity_id,
                                                   is_advance, TRUE),
        !.commercial_invoice_no = IF is_advance THEN "" ELSE "CI-1",
        !.invoice_type = IF is_advance THEN "PROFORMA_INVOICE"
                         ELSE "COMMERCIAL_INVOICE",
        !.advance_payment = IF is_advance THEN 1 ELSE 0]

InitRace ==
    \E ids \in [Sessions -> RaceInvoiceLines], advance \in [Sessions -> BOOLEAN] :
        /\ evaluated = NoEvaluation
        /\ cache_data = {}
        /\ currencies = Currencies
        /\ product_purchase_orders = PoLinesAtSelection
        /\ can_payment_term = NoPaymentTerms
        /\ purchase_invoices = {}
        /\ purchase_invoice_details = {}
        /\ next_id = 1
        /\ authenticated = [s \in Sessions |-> TRUE]
        /\ wizard_step = [s \in Sessions |-> "confirm"]
        /\ selected_ans = ids
        /\ filter_vendor = [s \in Sessions |-> {}]
        /\ current_page = [s \in Sessions |-> 1]
        /\ selected_df = [s \in Sessions |-> Some(Rows(ids[s]))]
        /\ details_df = [s \in Sessions |-> Some(get_invoice_details(ids[s]))]
        /\ invoice_data = [s \in Sessions |->
                              Some(RaceInvoiceData(Rows(ids[s]), advance[s]))]
        /\ is_advance_payment = advance
        /\ invoice_creating = [s \in Sessions |-> FALSE]
        /\ last_created_invoice = [s \in Sessions |-> None]
        /\ selected_payment_term = [s \in Sessions |->
              Some(render_payment_term(None, Rows(ids[s]), TRUE))]
        /\ pc = [s \in Sessions |-> "idle"]
        /\ tx = [s \in Sessions |-> NoTx]
        /\ result = [s \in Sessions |-> None]

NextRace ==
    \/ \E s \in Sessions : CreateInvoice(s)
    \/ \E s \in Sessions : CallStep(s)

SpecRace == InitRace /\ [][NextRace]_vars

(***************************************************************************)
(* Properties.                                                             *)
(***************************************************************************)
\* The detail rows of invoice id among the committed rows.
details_of(id) == {d \in purchase_invoice_details : d.purchase_invoice_id = id}

\* The step ends session s's call.
call_returns(s) == pc[s] # "idle" /\ pc'[s] = "idle"

\* The step starts a call of create_purchase_invoice in session s.
call_starts(s) ==
    /\ pc'[s] = "resolving_creator"
    /\ pc[s] # "resolving_creator" \/ tx'[s] # tx[s]

\* C1. create_purchase_invoice is all-or-nothing.  In every state each
\* committed header has detail rows and each committed detail row has its
\* header; the committed tables change only in the step that commits a call,
\* and that step adds the call's header together with one detail row for
\* each of the n rows of its details_df; a step in which a call returns a
\* failure (whatever it had inserted: the header, k of the n lines) leaves
\* the committed tables as they were before the call.
C1_AllOrNothing ==
    /\ [] /\ \A h \in purchase_invoices : details_of(h.id) # {}
          /\ \A d \in purchase_invoice_details :
                 \E h \in purchase_invoices : h.id = d.purchase_invoice_id
    /\ [][ /\ (purchase_invoices' # purchase_invoices
               \/ purchase_invoice_details' # purchase_invoice_details)
              => \E s \in Sessions :
                   LET new_h == purchase_invoices' \ purchase_invoices
                       new_d == purchase_invoice_details' \ purchase_invoice_details
                   IN  /\ pc[s] = "committing" /\ call_returns(s)
                       /\ Get(result'[s]).ok
                       /\ purchase_invoices \subseteq purchase_invoices'
                       /\ purchase_invoice_details \subseteq purchase_invoice_details'
                       /\ new_h = tx[s].header
                       /\ Cardinality(new_h) = 1
                       /\ Cardinality(new_d) = Cardinality(tx[s].details_df)
                       /\ {d.arrival_detail_id : d \in new_d}
                            = {row.arrival_detail_id : row \in tx[s].details_df}
                       /\ \A d \in new_d :
                              d.purchase_invoice_id = Get(tx[s].header).id
           /\ \A s \in Sessions :
                 (call_returns(s) /\ ~ Get(result'[s]).ok)
                 => /\ purchase_invoices' = purchase_invoices
                    /\ purchase_invoice_details' = purchase_invoice_details
                    /\ \A id \in Get(result'[s]).allocated :
                          /\ \A h \in purchase_invoices' : h.id # id
                          /\ \A d \in purchase_invoice_details' :
                                 d.purchase_invoice_id # id ]_vars

\* A call failed after it had inserted its header and at least one line, and
\* no row of that invoice is in the database.
C1_FailedAfterLineInsert ==
    /\ ~ IsNone(result["s1"])
    /\ ~ Get(result["s1"]).ok
    /\ Get(result["s1"]).inserts >= 2
    /\ \A id \in Get(result["s1"]).allocated :
          /\ \A h \in purchase_invoices : h.id # id
          /\ details_of(id) = {}

\* C2. Every persisted invoice consists of arrival lines that share one
\* vendor code, one vendor type and one legal-entity code.
C2_OneVendorTypeEntity ==
    \A h \in purchase_invoices :
        LET lines == {can_tracking_full_view[d.arrival_detail_id] :
                         d \in details_of(h.id)}
        IN  /\ Cardinality({row.vendor_code : row \in lines}) = 1
            /\ Cardinality({row.vendor_type : row \in lines}) = 1
            /\ Cardinality({row.legal_entity_code : row \in lines}) = 1

\* C3. The number a session holds for its candidate is made of the vendor,
\* the buyer, the invoice type and either MAX(id) + 1 over the headers
\* committed when it was generated (1 when there were none) or, when that
\* query failed, the time of day: nothing in it depends on the session or on
\* numbers other sessions hold, so two sessions that read the same MAX(id)
\* hold the same number.
C3_NumberFromCommittedMax ==
    \A s \in Sessions :
        ~ IsNone(invoice_data[s]) =>
            LET inv == Get(invoice_data[s])
                suffix == IF inv.advance_payment = 1 THEN "A" ELSE "P"
            IN  \/ \E last_id \in {0} \cup {h.id : h \in purchase_invoices} :
                       inv.invoice_number =
                           format_invoice_number(inv.seller_id, inv.buyer_id,
                                                 Digits(last_id + 1), suffix)
                \/ inv.invoice_number =
                       format_invoice_number(inv.seller_id, inv.buyer_id,
                                             TimeOfDay, suffix)

\* Two sessions are at the confirm step with the same invoice number, and
\* neither has inserted a header.
C3_SameNumberInBothSessions ==
    /\ wizard_step["s1"] = "confirm" /\ wizard_step["s2"] = "confirm"
    /\ ~ IsNone(invoice_data["s1"]) /\ ~ IsNone(invoice_data["s2"])
    /\ Get(invoice_data["s1"]).invoice_number
         = Get(invoice_data["s2"]).invoice_number
    /\ Get(invoice_data["s1"]).invoice_number
         = format_invoice_number(Get(invoice_data["s1"]).seller_id,
                                 Get(invoice_data["s1"]).buyer_id,
                                 Digits(max_invoice_id + 1), "P")
    /\ purchase_invoices = {}
    /\ next_id = 1

\* C4. While a creation is in flight in a session (invoice_creating set, which
\* is the case exactly while its call runs) no step starts another call of
\* create_purchase_invoice in that session; a step adds at most one header;
\* the step that commits a session's invoice drops its candidate (no
\* invoice_data, flag cleared, back at the select step).
C4_NoReentrantCreate ==
    /\ [](\A s \in Sessions : invoice_creating[s] <=> pc[s] # "idle")
    /\ [][ /\ \A s \in Sessions : invoice_creating[s] => ~ call_starts(s)
           /\ Cardinality(purchase_invoices')
                <= Cardinality(purchase_invoices) + 1
           /\ \A s \in Sessions :
                 (call_returns(s) /\ Get(result'[s]).ok)
                 => /\ IsNone(invoice_data'[s])
                    /\ ~ invoice_creating'[s]
                    /\ wizard_step'[s] = "select" ]_vars

\* A creation is in flight at the confirm step: its header is inserted, its
\* lines are being inserted.
C4_CreationInFlight ==
    /\ wizard_step["s1"] = "confirm"
    /\ invoice_creating["s1"]
    /\ pc["s1"] = "inserting_lines"

\* C5. The committed tables and the id counter change only in a step of a
\* create_purchase_invoice call started by "Create Invoice" at the confirm
\* step: every other wizard action leaves them unchanged.
C5_OnlyCreateInvoiceWrites ==
    [][ (purchase_invoices' # purchase_invoices
         \/ purchase_invoice_details' # purchase_invoice_details
         \/ next_id' # next_id)
        => \E s \in Sessions : /\ wizard_step[s] = "confirm"
                               /\ invoice_creating[s]
                               /\ pc[s] # "idle" ]_vars

\* The user has gone through "Review & Confirm" and back to the arrival
\* list; the candidate is in the session and the database is untouched.
C5_AbandonedAfterReview ==
    /\ wizard_step["s1"] = "select"
    /\ ~ IsNone(invoice_data["s1"])
    /\ purchase_invoices = EarlierInvoices
    /\ purchase_invoice_details = EarlierDetails
    /\ next_id = 2

\* A candidate needs a rate it does not have.
lacks_required_rate(inv) ==
    /\ inv.po_currency_code # inv.invoice_currency_code
    /\ IsNone(inv.po_to_invoice_rate)

\* C6. No candidate whose PO currency differs from the invoice currency while
\* po_to_invoice_rate is missing is stored at "Review & Confirm", is handed
\* to create_purchase_invoice or is persisted; at the preview "Review &
\* Confirm" goes through for every currency of the list when the USD rate is
\* missing and the PO rate is there; a candidate or a header in USD has
\* usd_exchange_rate 1.0.
C6_RequiredRateOnly ==
    /\ \A s \in Sessions :
          /\ \A inv \in invoice_data[s] \cup tx[s].invoice_data :
                /\ ~ lacks_required_rate(inv)
                /\ inv.invoice_currency_code = "USD"
                   => inv.usd_exchange_rate = Some(RateScale)
          /\ (AtStep(s, "preview") /\ ~ IsNone(selected_df[s]))
             => \A cur \in currencies, po_rate \in ProviderRates :
                   ENABLED ReviewAndConfirm(s, cur, Some(po_rate), None, "CI-1", TRUE)
    /\ \A h \in purchase_invoices :
          h.currency = "USD" => h.usd_exchange_rate = Some(RateScale)

\* An invoice in EUR was persisted although the USD rate was missing.
C6_PersistedWithoutUsdRate ==
    \E h \in purchase_invoices :
        h.currency = "EUR" /\ IsNone(h.usd_exchange_rate)

\* C7. A call that returns "Invalid user" has executed no INSERT and returns
\* a failure with no invoice id, and the step in which it returns leaves the
\* tables and the id counter unchanged; no call holds an inserted row and no
\* header is committed without a resolved creator.
C7_UnresolvedCreatorWritesNothing ==
    /\ [] /\ \A s \in Sessions : \A r \in result[s] :
                 r.reason = "Invalid user"
                 => /\ ~ r.ok
                    /\ IsNone(r.invoice_id)
                    /\ r.inserts = 0
                    /\ r.allocated = {}
          /\ \A s \in Sessions :
                 (~ IsNone(tx[s].header) \/ tx[s].details # {})
                 => ~ IsNone(tx[s].keycloak_id)
          /\ \A h \in purchase_invoices : ~ IsNone(h.created_by)
    /\ [][ \A s \in Sessions :
             (call_returns(s) /\ Get(result'[s]).reason = "Invalid user")
             => /\ pc[s] = "resolving_creator"
                /\ UNCHANGED <<purchase_invoices, purchase_invoice_details,
                               next_id>> ]_vars

\* A call has returned "Invalid user"; nothing was ever inserted.
C7_InvalidUserReturned ==
    /\ \E r \in result["s1"] : r.reason = "Invalid user"
    /\ purchase_invoices = {}
    /\ purchase_invoice_details = {}
    /\ next_id = 1

call_order ==
    <<"resolving_creator", "computing_totals", "inserting_header",
      "inserting_lines", "committing">>

\* C9. A call goes through resolve creator, compute totals, insert header,
\* insert lines (one row a step, all of them before the commit) in this
\* order, leaving the order only to return; it holds no line without a
\* header, no header without totals and no totals without a creator; it ends
\* committed or rolled back, a success only from the commit; and every call
\* that has started ends.
C9_CallOrder ==
    /\ [](\A s \in Sessions :
            /\ tx[s].details # {} => ~ IsNone(tx[s].header)
            /\ ~ IsNone(tx[s].header) => ~ IsNone(tx[s].total_amount_exclude_vat)
            /\ ~ IsNone(tx[s].total_amount_exclude_vat)
               => ~ IsNone(tx[s].keycloak_id)
            /\ ~ IsNone(tx[s].keycloak_id) => pc[s] # "resolving_creator"
            /\ ~ IsNone(tx[s].header)
               => pc[s] \in {"inserting_lines", "committing"}
            /\ pc[s] = "committing" => lines_to_insert(tx[s]) = {})
    /\ [][ \A s \in Sessions :
             /\ pc'[s] # pc[s]
                => \/ pc[s] = "idle" /\ pc'[s] = call_order[1]
                   \/ \E i \in 1..4 : pc[s] = call_order[i]
                                      /\ pc'[s] = call_order[i + 1]
                   \/ pc'[s] = "idle"
             /\ (pc'[s] # "idle" /\ pc[s] # "idle")
                => /\ tx[s].details \subseteq tx'[s].details
                   /\ Cardinality(tx'[s].details)
                        <= Cardinality(tx[s].details) + 1
             /\ call_returns(s)
                => /\ Get(result'[s]).tx_end \in {"committed", "rolled_back"}
                   /\ Get(result'[s]).ok
                      => (pc[s] = "committing"
                          /\ Get(result'[s]).tx_end = "committed")
                   /\ Get(result'[s]).tx_end = "rolled_back"
                      => ~ Get(result'[s]).ok ]_vars
    /\ \A s \in Sessions : (pc[s] # "idle") ~> (pc[s] = "idle")

\* One call has ended committed and another rolled back.
C9_CommittedAndRolledBack ==
    /\ \E r \in result["s1"] : ~ r.ok /\ r.tx_end = "rolled_back"
    /\ \E r \in result["s2"] : r.ok /\ r.tx_end = "committed"

\* Sum of amount_exclude_vat over the committed detail rows of invoice id.
line_sum(id) ==
    SumOver(details_of(id), [d \in details_of(id) |-> d.amount_exclude_vat])

\* C10 as claimed.  For every persisted invoice the header's
\* total_invoiced_amount_exclude_vat equals the sum of the amount_exclude_vat
\* of its detail rows.
C10_HeaderEqualsLineSum ==
    \A h \in purchase_invoices :
        h.total_invoiced_amount_exclude_vat = line_sum(h.id)

\* C10 as amended.  The header's total_invoiced_amount_exclude_vat is the
\* sum of the unrounded line amounts rounded once; it differs from the sum
\* of the n rounded amount_exclude_vat of its detail rows by at most
\* (n + 1) \div 2 cents, and equals it when the rate is 1.00 (no line amount
\* is rounded).
C10_HeaderWithinRounding ==
    \A h \in purchase_invoices :
        LET n == Cardinality(details_of(h.id))
            diff == h.total_invoiced_amount_exclude_vat - line_sum(h.id)
        IN  /\ diff <= (n + 1) \div 2
            /\ - diff <= (n + 1) \div 2
            /\ (\A d \in details_of(h.id) : d.exchange_rate = RateScale)
               => diff = 0

\* An invoice of three lines is persisted whose header total is two cents
\* away from the sum of its lines.
C10_TwoCentsApart ==
    \E h \in purchase_invoices :
        /\ Cardinality(details_of(h.id)) = 3
        /\ line_sum(h.id) - h.total_invoiced_amount_exclude_vat = 2

\* The detail rows in the database or in an open transaction.
written_details ==
    purchase_invoice_details \cup UNION {tx[s].details : s \in Sessions}

\* C11. Every detail row, written or persisted, has amount = round(
\* amount_exclude_vat * (1 + vat_gst / 100), 2), computed on the rounded
\* amount_exclude_vat; the step that writes a detail row takes it from a row
\* of the call's details_df, with amount_exclude_vat = round(unit_cost *
\* quantity * po_to_invoice_rate, 2), the quantity and the rate of the call;
\* the rows a step persists are rows the call has written.
C11_LineAmounts ==
    /\ [](\A d \in written_details :
            d.amount = RoundDiv(d.amount_exclude_vat * (100 + d.vat_gst), 100))
    /\ [][ \A s \in Sessions :
             /\ \A d \in tx'[s].details \ tx[s].details :
                   \E row \in tx[s].details_df :
                      /\ row.arrival_detail_id = d.arrival_detail_id
                      /\ d.exchange_rate
                           = Get(Get(tx[s].invoice_data).po_to_invoice_rate)
                      /\ d.purchased_invoice_quantity = row.uninvoiced_quantity
                      /\ d.amount_exclude_vat
                           = RoundDiv(row.buying_unit_cost[1]
                                        * row.uninvoiced_quantity
                                        * d.exchange_rate, RateScale)
             /\ call_returns(s)
                => (purchase_invoice_details' \ purchase_invoice_details)
                      \subseteq tx[s].details ]_vars

\* A persisted row of one unit at 1.01 and rate 0.50: 0.505 is stored as 0.50
\* and, with 10% VAT, the inclusive amount is 0.55 (0.5555 would give 0.56).
C11_InclusiveFromRounded ==
    \E d \in purchase_invoice_details :
        /\ d.exchange_rate = 50
        /\ d.purchased_invoice_quantity = 1
        /\ d.amount_exclude_vat = 50
        /\ d.vat_gst = 10
        /\ d.amount = 55

\* C12. The step that writes a detail row stores the vat_gst the PO line has
\* in product_purchase_orders at that step (0 when it has none) and computes
\* the inclusive amount with it, whatever vat_percent the arrival list showed
\* for the line when it was selected.
C12_VatAtWriteTime ==
    [][ \A s \in Sessions : \A d \in tx'[s].details \ tx[s].details :
          LET now == product_purchase_orders[d.product_purchase_order_id]
          IN  /\ d.vat_gst = IF IsNone(now) THEN 0 ELSE Get(now)
              /\ d.amount = RoundDiv(d.amount_exclude_vat * (100 + d.vat_gst), 100)
      ]_vars

\* A persisted row of PO line 1 carries 8% although the list showed 10%, and
\* its inclusive amount is computed with 8%.
C12_ChangedRatePersisted ==
    \E d \in purchase_invoice_details :
        /\ d.product_purchase_order_id = 1
        /\ vat_gst[1] = 10
        /\ d.vat_gst = 8
        /\ d.amount_exclude_vat = 303
        /\ d.amount = 327

\* C13 as claimed.  generate_invoice_number returns the date, then the vendor
\* id, the buyer id and the sequence 1 + MAX(id) (1 when there is no invoice)
\* printed one after the other, then the suffix, A exactly when the
\* advance-payment flag is set and P otherwise.
C13_SequenceIsMaxPlusOne ==
    evaluated.fn = "generate_invoice_number" =>
        /\ evaluated.value.date = "YYYYMMDD"
        /\ evaluated.value.body = Digits(evaluated.args[1])
                                    \o Digits(evaluated.args[2])
                                    \o Digits(max_invoice_id + 1)
        /\ evaluated.value.suffix = "A" <=> evaluated.args[3]
        /\ evaluated.value.suffix = "P" <=> ~ evaluated.args[3]

\* C13 as amended.  The same, with the sequence 1 + MAX(id) when the MAX(id)
\* query goes through and the time of day (HHMMSS) in its place when the
\* query fails.
C13_SequenceOrTimeOfDay ==
    evaluated.fn = "generate_invoice_number" =>
        /\ evaluated.value.date = "YYYYMMDD"
        /\ evaluated.value.body = Digits(evaluated.args[1])
                                    \o Digits(evaluated.args[2])
                                    \o (IF evaluated.args[4]
                                        THEN Digits(max_invoice_id + 1)
                                        ELSE TimeOfDay)
        /\ evaluated.value.suffix = "A" <=> evaluated.args[3]
        /\ evaluated.value.suffix = "P" <=> ~ evaluated.args[3]

\* The query failed over a database of two invoices and the number of an
\* advance-payment invoice of vendor 11 and buyer 12 carries the time of day.
C13_NumberFromTimeOfDay ==
    /\ evaluated.fn = "generate_invoice_number"
    /\ evaluated.args = <<11, 12, TRUE, FALSE>>
    /\ max_invoice_id = 2
    /\ evaluated.value.body = <<1, 1, 1, 2>> \o TimeOfDay
    /\ evaluated.value.suffix = "A"

\* C14.  A creation fails on a collision of its invoice number with a
\* persisted one only after it has regenerated the number and retried: the
\* number that collides in the step in which the call returns the failure is
\* not the number the session stored at "Review & Confirm".
C14_CollisionRetriedOnce ==
    [][ \A s \in Sessions :
          (call_returns(s)
           /\ Get(result'[s]).exception = Some("IntegrityError"))
          => Get(tx[s].invoice_data).invoice_number
               # Get(invoice_data[s]).invoice_number ]_vars

\* C15.  The step in which a call returns a failure leaves the session at the
\* confirm step with the invoice_data it had, clears invoice_creating and
\* starts nothing; a call of create_purchase_invoice starts only in a "Create
\* Invoice" step of a session that is at rest at the confirm step.
C15_FailureAbandoned ==
    [][ \A s \in Sessions :
          /\ (pc[s] # "idle" /\ result'[s] # result[s]
              /\ ~ IsNone(result'[s]) /\ ~ Get(result'[s]).ok)
             => /\ pc'[s] = "idle"
                /\ tx'[s] = NoTx
                /\ wizard_step'[s] = "confirm"
                /\ invoice_data'[s] = invoice_data[s]
                /\ ~ IsNone(invoice_data'[s])
                /\ details_df'[s] = details_df[s]
                /\ ~ invoice_creating'[s]
          /\ call_starts(s)
             => /\ AtStep(s, "confirm")
                /\ ~ invoice_creating[s]
                /\ CreateInvoice(s) ]_vars

\* A creation has failed: the session is at rest at the confirm step with
\* its candidate, the flag cleared, and "Create Invoice" is offered again.
C15_FailedAndAtConfirm ==
    /\ \E r \in result["s1"] : ~ r.ok /\ r.reason = "Error creating invoice"
    /\ AtStep("s1", "confirm")
    /\ ~ IsNone(invoice_data["s1"])
    /\ ~ invoice_creating["s1"]
    /\ ENABLED CreateInvoice("s1")

\* C16.  validate_invoice_selection answers an empty frame with "No items
\* selected"; a frame with more than one vendor code with the vendor message,
\* whatever its types and entities; a frame of one vendor code and more than
\* one vendor type with the vendor-type message; a frame of one vendor code,
\* one vendor type and more than one legal-entity code with the entity
\* message; and (True, "") exactly when the frame is not empty and has one
\* vendor code, one vendor type and one legal-entity code.
C16_FirstFailingRuleWins ==
    evaluated.fn = "validate_invoice_selection" =>
        LET df == evaluated.args[1]
            vendors == Cardinality({row.vendor_code : row \in df})
            types == Cardinality({row.vendor_type : row \in df})
            entities == Cardinality({row.legal_entity_code : row \in df})
            message == evaluated.value.error_message
        IN  /\ df = {} => message = "No items selected"
            /\ vendors > 1 => message = "Multiple vendors selected"
            /\ (vendors = 1 /\ types > 1)
               => message = "Cannot mix Internal and External vendors in the same invoice"
            /\ (vendors = 1 /\ types = 1 /\ entities > 1)
               => message = "Multiple legal entities selected"
            /\ evaluated.value.is_valid
               <=> (df # {} /\ vendors = 1 /\ types = 1 /\ entities = 1)
            /\ evaluated.value.is_valid <=> message = ""

\* A frame with two vendors and two legal entities (and one vendor type) got
\* the vendor message.
C16_VendorMessageBeforeEntity ==
    /\ evaluated.fn = "validate_invoice_selection"
    /\ Cardinality({row.vendor_code : row \in evaluated.args[1]}) = 2
    /\ Cardinality({row.vendor_type : row \in evaluated.args[1]}) = 1
    /\ Cardinality({row.legal_entity_code : row \in evaluated.args[1]}) = 2
    /\ evaluated.value = Verdict(FALSE, "Multiple vendors selected")

\* No two rows of the frame agree on the column.
one_row_per(df, column) ==
    \A r1, r2 \in df : r1[column] = r2[column] => r1 = r2

\* C17.  An arrival line counts once.  The selection is a set of ids of the
\* view; the frames a session keeps (selected_df, details_df) and the frame
\* handed to create_purchase_invoice hold one row for each line, also when
\* get_invoice_details returns a line more than once; an invoice, written or
\* persisted, has at most one detail row for an arrival_detail_id; and the
\* header a step persists carries the total of its lines, each taken once.
C17_LineCountsOnce ==
    /\ [] /\ \A s \in Sessions :
                /\ selected_ans[s] \subseteq CanLines
                /\ \A df \in selected_df[s] : one_row_per(df, "can_line_id")
                /\ \A df \in details_df[s] : one_row_per(df, "arrival_detail_id")
                /\ one_row_per(tx[s].details_df, "arrival_detail_id")
                /\ one_row_per(tx[s].details, "arrival_detail_id")
          /\ \A h \in purchase_invoices :
                one_row_per(details_of(h.id), "arrival_detail_id")
    /\ [][ \A s \in Sessions :
             (call_returns(s) /\ Get(result'[s]).ok)
             => \A h \in purchase_invoices' \ purchase_invoices :
                   LET lines == {d.arrival_detail_id : d \in details_of(h.id)'}
                       rate == Get(Get(tx[s].invoice_data).po_to_invoice_rate)
                   IN  /\ Cardinality(details_of(h.id)') = Cardinality(lines)
                       /\ h.total_invoiced_amount_exclude_vat
                            = RoundDiv(sum_base_amounts(Rows(lines), rate),
                                       RateScale) ]_vars

\* get_invoice_details returns arrival line 3 twice (its PO has two lines of
\* the product), and the invoice created from it has one detail row.
C17_RepeatedLinePersistedOnce ==
    /\ Cardinality(get_invoice_details({3})) = 2
    /\ \E h \in purchase_invoices \ EarlierInvoices :
          /\ Cardinality(details_of(h.id)) = 1
          /\ \A d \in details_of(h.id) : d.arrival_detail_id = 3

\* C18.  calculate_days_from_term_name gives 30 for a null label; for a label
\* that starts with "Net ", the integer that follows "Net " (the first word
\* after it), or 30 when that word is not an integer; for another label, 0
\* when it is COD, CIA or TT IN ADVANCE or contains Advance, and 30 otherwise.
C18_DaysFromTermName ==
    evaluated.fn = "calculate_days_from_term_name" =>
        LET term_name == evaluated.args[1]
            label == Get(term_name)
            follows == first_word(Tail(label))
        IN  IF IsNone(term_name) THEN evaluated.value = 30
            ELSE IF starts_with_net(label)
                 THEN evaluated.value =
                          IF int_parses(follows) THEN int_value(follows) ELSE 30
            ELSE IF \/ label \in {<<"COD">>, <<"CIA">>, <<"TT IN ADVANCE">>}
                    \/ "Advance" \in Range(label)
                 THEN evaluated.value = 0
            ELSE evaluated.value = 30

\* C19.  get_uninvoiced_ans returns the lines of the view whose
\* uninvoiced_quantity is positive, and for each of them true_remaining_qty is
\* max(0, min(uninvoiced_quantity, po_line_pending_invoiced_qty)): it is the
\* pending quantity when that lies between 0 and the uninvoiced quantity, 0
\* when the pending quantity is negative, the uninvoiced quantity when the
\* pending quantity is larger; so 0 <= true_remaining_qty <=
\* uninvoiced_quantity.
C19_TrueRemainingBounded ==
    evaluated.fn = "get_uninvoiced_ans" =>
        /\ \A can \in evaluated.args[1] :
              can.uninvoiced_quantity > 0
              <=> \E row \in evaluated.value :
                     /\ row.uninvoiced_quantity = can.uninvoiced_quantity
                     /\ row.po_line_pending_invoiced_qty
                          = can.po_line_pending_invoiced_qty
        /\ \A row \in evaluated.value :
              /\ 0 <= row.true_remaining_qty
              /\ row.true_remaining_qty <= row.uninvoiced_quantity
              /\ row.po_line_pending_invoiced_qty < 0
                 => row.true_remaining_qty = 0
              /\ (0 <= row.po_line_pending_invoiced_qty
                  /\ row.po_line_pending_invoiced_qty <= row.uninvoiced_quantity)
                 => row.true_remaining_qty = row.po_line_pending_invoiced_qty
              /\ row.po_line_pending_invoiced_qty > row.uninvoiced_quantity
                 => row.true_remaining_qty = row.uninvoiced_quantity

\* A line with 2 uninvoiced on an over-invoiced PO line (pending -1) is
\* returned with nothing remaining.
C19_NegativePendingGivesZero ==
    /\ evaluated.fn = "get_uninvoiced_ans"
    /\ evaluated.value = {[uninvoiced_quantity |-> 2,
                           po_line_pending_invoiced_qty |-> 0 - 1,
                           true_remaining_qty |-> 0]}

\* C20: get_po_line_summary returns one row for each live PO line of a live
\* PO named in the input, however often it is named; every live invoice-detail
\* record of a live invoice is counted in legacy_invoice_qty when it has no
\* arrival line and in new_invoice_qty when it has one, never in both, and
\* po_remaining_qty = po_buying_qty - legacy_invoice_qty - new_invoice_qty,
\* which is negative for an over-invoiced PO line.
C20_PoLineSummary ==
    evaluated.fn = "get_po_line_summary" =>
        LET po_line_ids == evaluated.args[1]
            ppo == evaluated.args[2]
            pid == evaluated.args[3]
            df == evaluated.value
            live(i) == /\ pid[i].delete_flag = 0
                       /\ SummaryInvoices[pid[i].purchase_invoice_id].delete_flag = 0
            quantity(ppo_id, with_arrival) ==
                LET one == {i \in DOMAIN pid :
                              /\ live(i)
                              /\ pid[i].product_purchase_order_id = ppo_id
                              /\ (pid[i].arrival_detail_id # None) = with_arrival
                              /\ i % 2 = 1}
                    many == {i \in DOMAIN pid :
                              /\ live(i)
                              /\ pid[i].product_purchase_order_id = ppo_id
                              /\ (pid[i].arrival_detail_id # None) = with_arrival
                              /\ i % 2 = 0}
                IN  Cardinality(one) + MaxQuantity * Cardinality(many)
        IN  /\ \A ppo_id \in DOMAIN ppo :
                  Cardinality({i \in DOMAIN df :
                                 df[i].product_purchase_order_id = ppo_id})
                    = IF /\ ppo_id \in Range(po_line_ids)
                         /\ ppo[ppo_id].delete_flag = 0
                         /\ ppo[ppo_id].po_delete_flag = 0
                      THEN 1 ELSE 0
            /\ \A i \in DOMAIN df :
                  /\ df[i].po_buying_qty
                       = ppo[df[i].product_purchase_order_id].purchase_quantity
                  /\ df[i].legacy_invoice_qty
                       = quantity(df[i].product_purchase_order_id, FALSE)
                  /\ df[i].new_invoice_qty
                       = quantity(df[i].product_purchase_order_id, TRUE)
                  /\ df[i].po_remaining_qty
                       = df[i].po_buying_qty - df[i].legacy_invoice_qty
                           - df[i].new_invoice_qty

\* Witness of C20: a PO line named twice gets its one row, with a legacy and
\* a new quantity and a negative remaining quantity.
C20_OverInvoicedLineNamedTwice ==
    /\ evaluated.fn = "get_po_line_summary"
    /\ evaluated.args[1] = <<1, 1>>
    /\ Len(evaluated.value) = 1
    /\ evaluated.value[1].legacy_invoice_qty > 0
    /\ evaluated.value[1].new_invoice_qty > 0
    /\ evaluated.value[1].po_remaining_qty < 0

\* C21: the PO-line summary is never served from a cache: whenever a session
\* reads it, the rows it gets are the rows the query gives on the database as
\* it is at that time, every committed invoice counted.
C21_SummaryReadIsFresh ==
    [][\A s \in Sessions :
          ShowSelectionSummary(s)
            => evaluated'.value = query_po_line_summary(evaluated'.args[1])]_vars

\* C22: a candidate that is not an advance payment is stored by the preview
\* only with a commercial-invoice number, and every COMMERCIAL_INVOICE header,
\* written or committed, carries it; the candidate and the header of an
\* advance payment carry none.
C22_CommercialNumberRequired ==
    /\ \A s \in Sessions : \A inv \in invoice_data[s] :
          (inv.commercial_invoice_no = "") = (inv.advance_payment = 1)
    /\ \A h \in purchase_invoices \cup UNION {tx[s].header : s \in Sessions} :
          /\ h.invoice_type = "COMMERCIAL_INVOICE"
               => ~ IsNone(h.commercial_invoice_no)
          /\ h.invoice_type = "PROFORMA_INVOICE"
               => IsNone(h.commercial_invoice_no)

\* Witness of C22: a commercial invoice with its number and an advance-payment
\* invoice without one are both committed.
C22_BothKindsPersisted ==
    \E commercial \in purchase_invoices, advance \in purchase_invoices :
        /\ commercial.invoice_type = "COMMERCIAL_INVOICE"
        /\ commercial.commercial_invoice_no = Some("CI-1")
        /\ advance.invoice_type = "PROFORMA_INVOICE"
        /\ advance.advance_payment = 1
        /\ IsNone(advance.commercial_invoice_no)

\* The rows of df have one value in the column.
single_valued(df, column) == Cardinality({row[column] : row \in df}) = 1

\* Session s leaves step `from` for step `to`.
wizard_moves(s, from, to) == wizard_step[s] = from /\ wizard_step'[s] = to

\* The step is a "Proceed to Preview" of s that the PO-level validation let
\* through, on a selection set that is not empty and whose rows in the
\* filtered list have one vendor, one vendor type and one legal entity.
proceeds_validated(s) ==
    /\ ProceedToPreview(s, TRUE)
    /\ selected_ans[s] # {}
    /\ filtered_selection(s) # {}
    /\ single_valued(filtered_selection(s), "vendor_code")
    /\ single_valued(filtered_selection(s), "vendor_type")
    /\ single_valued(filtered_selection(s), "legal_entity_code")

\* The step takes s from preview to confirm and leaves an invoice_data.
confirms_with_invoice_data(s) ==
    /\ wizard_moves(s, "preview", "confirm")
    /\ ~ IsNone(invoice_data'[s])

creation_succeeds(s) ==
    /\ call_returns(s)
    /\ \E res \in result'[s] : res.ok

\* C24: the step in which a creation succeeds and the step of "Reset Filters"
\* leave the session with an empty selection set and its authentication as it
\* was; the successful creation also leaves it at select with invoice_data
\* and details_df None and invoice_creating False.
C24_ResetsClearSelection ==
    [][\A s \in Sessions :
          /\ creation_succeeds(s)
               => /\ selected_ans'[s] = {}
                  /\ wizard_step'[s] = "select"
                  /\ IsNone(invoice_data'[s])
                  /\ IsNone(details_df'[s])
                  /\ ~ invoice_creating'[s]
                  /\ authenticated'[s] = authenticated[s]
          /\ ResetFilters(s)
               => /\ selected_ans'[s] = {}
                  /\ authenticated'[s] = authenticated[s]]_vars

\* Witness of C24: a creation has just succeeded for a session that had
\* selected lines, stored an invoice and stays logged in.
C24_ResetAfterSuccess ==
    \E s \in Sessions : \E res \in result[s] :
        /\ res.ok
        /\ authenticated[s]
        /\ wizard_step[s] = "select"
        /\ selected_ans[s] = {}
        /\ purchase_invoices # EarlierInvoices

\* C25: each time the preview is entered from the selection step, the proposed
\* payment term is the most frequent label among the rows now selected (ties
\* by sort order), or 'Net 30' when no selected row has a label.
C25_ProposedTermIsMode ==
    [][\A s \in Sessions :
          (wizard_step[s] = "select" /\ wizard_step'[s] = "preview")
            => selected_payment_term'[s] =
                 Some(IF payment_terms(Get(selected_df'[s])) = {} THEN "Net 30"
                      ELSE most_common_term(Get(selected_df'[s])))]_vars

\* The amount_exclude_vat the amount and the VAT percent of a detail row stand
\* for: round(amount_include_vat / (1 + vat_percent / 100), 2).
recomputed_amount_exclude_vat(amount, vat_percent) ==
    RoundDiv(amount * 100, 100 + vat_percent)

\* C26: for every amount_exclude_vat (cents) and VAT percent, the exclusive
\* amount recomputed from amount_include_vat and the percent is within one
\* cent of the original.
C26_VatRoundTrip ==
    evaluated.fn = "amount_include_vat"
      => LET original == evaluated.args[1]
             back == recomputed_amount_exclude_vat(evaluated.value, evaluated.args[2])
         IN  back - original \in {-1, 0, 1}

\* An inclusive amount that had to be rounded was computed.
C26_RoundedAmount ==
    /\ evaluated.fn = "amount_include_vat"
    /\ (evaluated.args[1] * (100 + evaluated.args[2])) % 100 # 0

\* C27: the arrival lines written as detail rows of an invoice are the lines
\* of the frame validate_invoice_selection checked at "Proceed to Preview"
\* (selected_df); a line that is in the selection set but not in the filtered
\* list is not persisted unvalidated.
C27_PersistedLinesWereValidated ==
    [][\A s \in Sessions :
          creation_succeeds(s)
            => /\ ~ IsNone(selected_df[s])
               /\ {d.arrival_detail_id : d \in tx[s].details}
                    = {row.arrival_detail_id : row \in Get(selected_df[s])}]_vars

\* C28: whatever the interleaving of two sessions that selected the same
\* arrival line, the quantity persisted in detail rows for an arrival line is
\* never more than the quantity that was uninvoiced before the first creation,
\* and every persisted detail row has a quantity greater than 0.
C28_NoOverInvoicing ==
    /\ \A l \in CanLines :
          LET rows == {d \in purchase_invoice_details : d.arrival_detail_id = l}
          IN  SumOver(rows, [d \in rows |-> d.purchased_invoice_quantity])
                <= can_tracking_full_view[l].uninvoiced_quantity
    /\ \A d \in purchase_invoice_details : d.purchased_invoice_quantity > 0

\* C29: the three markers of the type of every persisted invoice agree: the
\* number ends in -A exactly when advance_payment is 1 and exactly when
\* invoice_type is PROFORMA_INVOICE, and in -P exactly when advance_payment is
\* 0 and exactly when invoice_type is COMMERCIAL_INVOICE, whatever toggles of
\* the advance-payment box, Back and Proceed steps came before the submission.
C29_TypeMarkersAgree ==
    \A h \in purchase_invoices :
        /\ h.invoice_number.suffix \in {"A", "P"}
        /\ h.advance_payment \in {0, 1}
        /\ h.invoice_type \in {"PROFORMA_INVOICE", "COMMERCIAL_INVOICE"}
        /\ h.invoice_number.suffix = "A" <=> h.advance_payment = 1
        /\ h.advance_payment = 1 <=> h.invoice_type = "PROFORMA_INVOICE"

\* An advance-payment invoice was persisted beside a commercial one.
C29_AdvanceInvoicePersisted ==
    /\ \E h \in purchase_invoices : h.invoice_type = "PROFORMA_INVOICE"
    /\ \E h \in purchase_invoices : h.invoice_type = "COMMERCIAL_INVOICE"

\* C30: after a successful creation, when the wizard next shows the select
\* step, last_created_invoice holds the id, the number, the amount and the
\* currency of the invoice just created; the select step shows it and leaves
\* the key None.
C30_SuccessInfoShownOnce ==
    [][\A s \in Sessions :
          /\ creation_succeeds(s)
               => /\ wizard_step'[s] = "select"
                  /\ \E h \in tx[s].header :
                        last_created_invoice'[s] = Some(
                            [id |-> h.id,
                             number |-> h.invoice_number,
                             amount |-> h.total_invoiced_amount,
                             currency |-> h.currency])
          /\ (AtStep(s, "select") /\ wizard_step'[s] = "select"
                /\ ~ creation_succeeds(s))
               => (last_created_invoice'[s] = None
                     \/ last_created_invoice'[s] = last_created_invoice[s])]_vars
======================================================================
